---- MODULE Spec2Model ----
(***************************************************************************)
(* Daily Quest Log (src/main.js): the quest engine as a state machine.     *)
(*                                                                         *)
(* The plugin keeps one log record (quests, completions, player,           *)
(* timerState, day) that async handlers mutate.  A handler runs            *)
(* synchronously up to its first await (a save or a dialog); the rest of   *)
(* it is a continuation that runs later, after other handlers may have     *)
(* run.  One action below is one synchronous run of a handler: its call    *)
(* up to the first await, or one continuation.  The wall clock is read     *)
(* once per synchronous run and advances between runs.                     *)
(*                                                                         *)
(* Minutes are real numbers in the source ((Date.now() - startTime) /      *)
(* 60000).  The model holds every duration and instant as an integer       *)
(* number of ticks, TicksPerMinute ticks to the minute, so that            *)
(* Math.round has fractions to round.                                      *)
(***************************************************************************)
EXTENDS Integers, Sequences, FiniteSets, TLC

(* ------------------------------ bounds --------------------------------- *)
NumQuests == 2          \* quest ids in use
TicksPerMinute == 2     \* clock resolution
MaxClockSteps == 3      \* times the clock advances
MaxResetHour == 1       \* dailyResetHour ranges over 0..MaxResetHour
MaxClockBacks == 1      \* times the wall clock is set back
MaxPending == 1         \* handlers suspended at an await at the same time

(* --------------------------- program constants ------------------------- *)
NULL == 0               \* null: no active quest, no start time, no entry
NoEstimate == -1        \* estimateMinutes: null
xpPerMinute == 1
flatXp == 10
levelingBase == 100
MsPerMinute == 60000
HoursPerDay == 24
DefaultResetHour == 0
NoonHour == 12          \* d.setHours(12, 0, 0, 0)

QuestIds == 1..NumQuests
LongEstimate == levelingBase + 20     \* an estimate above the level-1 threshold
EstimateInputs == {0, LongEstimate}    \* estimateMinutes typed into createQuest
MsPerTick == MsPerMinute \div TicksPerMinute
TicksPerHour == 60 * TicksPerMinute
TicksPerDay == HoursPerDay * TicksPerHour
StartNow == 2 * TicksPerDay - 1      \* the last tick of day 1

Max(a, b) == IF a >= b THEN a ELSE b

(* ------------------------------- dates --------------------------------- *)
\* Date.getHours() of the instant t (ticks since local midnight of day 0)
getHours(t) == (t \div TicksPerHour) % HoursPerDay

\* toLocalDMY: the calendar date of t; "YYYY-MM-DD" strings are equal exactly
\* when the calendar days are, so the date is held as the day number
toLocalDMY(t) == t \div TicksPerDay

\* todayStr shifting back at the reset hour itself as well
todayStr_inclusive(resetHour, t) ==
  IF getHours(t) <= resetHour THEN toLocalDMY(t - TicksPerDay) ELSE toLocalDMY(t)

\* todayStr(resetHour) read at instant t: setDate(getDate() - 1) keeps the
\* time of day and moves the date one day back
todayStr(resetHour, t) ==
  IF getHours(t) < resetHour THEN toLocalDMY(t - TicksPerDay) ELSE toLocalDMY(t)

\* getLogicalToday(resetHour, now): the Date at noon of the logical day of t
getLogicalToday(resetHour, t) ==
  LET d == IF getHours(t) < resetHour THEN t - TicksPerDay ELSE t
  IN toLocalDMY(d) * TicksPerDay + NoonHour * TicksPerHour

(* ------------------------------ schedules ------------------------------ *)
\* A string is the sequence of its characters.
DaysPerWeek == 7
EpochWeekday == 4       \* new Date(0).getDay()
DAY_KEYS == <<"sun", "mon", "tue", "wed", "thu", "fri", "sat">>
\* the characters of DAY_KEYS[i]
DAY_CHARS ==
  <<<<"s", "u", "n">>,
    <<"m", "o", "n">>,
    <<"t", "u", "e">>,
    <<"w", "e", "d">>,
    <<"t", "h", "u">>,
    <<"f", "r", "i">>,
    <<"s", "a", "t">>>>
\* DAY_INDEX[k]: the getDay() number of the key k
DAY_INDEX(k) == (CHOOSE i \in 1..DaysPerWeek : DAY_KEYS[i] = k) - 1
WEEKDAYS == {"mon", "tue", "wed", "thu", "fri"}
WEEKENDS == {"sat", "sun"}

LowerCaseLetters ==
  <<"a", "b", "c", "d", "e", "f", "g", "h", "i", "j", "k", "l", "m">>
    \o <<"n", "o", "p", "q", "r", "s", "t", "u", "v", "w", "x", "y", "z">>
UpperCaseLetters ==
  <<"A", "B", "C", "D", "E", "F", "G", "H", "I", "J", "K", "L", "M">>
    \o <<"N", "O", "P", "Q", "R", "S", "T", "U", "V", "W", "X", "Y", "Z">>

\* String.prototype.toLowerCase()
toLowerCase(s) ==
  [i \in DOMAIN s |->
     IF \E j \in DOMAIN UpperCaseLetters : UpperCaseLetters[j] = s[i]
     THEN LowerCaseLetters[CHOOSE j \in DOMAIN UpperCaseLetters : UpperCaseLetters[j] = s[i]]
     ELSE s[i]]

\* the characters \s matches, of those the inputs use
IsSpace(c) == c \in {" ", "\t"}

RECURSIVE trimStart(_)
trimStart(s) == IF s # <<>> /\ IsSpace(Head(s)) THEN trimStart(Tail(s)) ELSE s

RECURSIVE trimEnd(_)
trimEnd(s) ==
  IF s # <<>> /\ IsSpace(s[Len(s)]) THEN trimEnd(SubSeq(s, 1, Len(s) - 1)) ELSE s

\* String.prototype.trim()
trim(s) == trimEnd(trimStart(s))

\* String.prototype.startsWith(k)
startsWith(s, k) == Len(s) >= Len(k) /\ SubSeq(s, 1, Len(k)) = k

RECURSIVE tokensFrom(_, _, _)
\* s.split(/[\s,]+/).filter(Boolean), cur being the token under way
tokensFrom(s, cur, acc) ==
  IF s = <<>> THEN (IF cur = <<>> THEN acc ELSE Append(acc, cur))
  ELSE IF IsSpace(Head(s)) \/ Head(s) = ","
       THEN tokensFrom(Tail(s), <<>>, IF cur = <<>> THEN acc ELSE Append(acc, cur))
       ELSE tokensFrom(Tail(s), Append(cur, Head(s)), acc)

RECURSIVE partsFrom(_, _, _)
\* tok.split('-'), cur being the part under way; empty parts are kept
partsFrom(s, cur, acc) ==
  IF s = <<>> THEN Append(acc, cur)
  ELSE IF Head(s) = "-" THEN partsFrom(Tail(s), <<>>, Append(acc, cur))
       ELSE partsFrom(Tail(s), Append(cur, Head(s)), acc)

\* normDay(v): the first key of DAY_KEYS the trimmed lower-cased v starts
\* with, "null" if none
normDay(v) ==
  LET s == toLowerCase(trim(v))
      hits == {i \in 1..DaysPerWeek : startsWith(s, DAY_CHARS[i])}
  IN IF hits = {} THEN "null"
     ELSE DAY_KEYS[CHOOSE i \in hits : \A j \in hits : i <= j]

\* the range loop stopping at Saturday instead of wrapping to Sunday
rangeWalk_noWrap(ai, B, i) ==
  LET RECURSIVE Walk(_)
      Walk(k) ==
        IF k >= DaysPerWeek \/ ai + k >= DaysPerWeek THEN {}
        ELSE LET key == DAY_KEYS[ai + k + 1]
             IN {key} \cup (IF key = B THEN {} ELSE Walk(k + 1))
  IN Walk(i)

RECURSIVE rangeWalk(_, _, _)
\* for (let i = 0; i < 7; i++) { days.add(DAY_KEYS[(DAY_INDEX[A] + i) % 7]);
\* if (key === B) break; }: the days added from step i on
rangeWalk(ai, B, i) ==
  IF i >= DaysPerWeek THEN {}
  ELSE LET key == DAY_KEYS[((ai + i) % DaysPerWeek) + 1]
       IN {key} \cup (IF key = B THEN {} ELSE rangeWalk(ai, B, i + 1))

\* the days one token of the for loop of parseSchedule adds
tokenDays(tok) ==
  LET parts == partsFrom(tok, <<>>, <<>>)
      a == parts[1]
      b == IF Len(parts) >= 2 THEN parts[2] ELSE <<>>
      A == normDay(a)
  IN IF b = <<>> THEN (IF A # "null" THEN {A} ELSE {})
     ELSE LET B == normDay(b)
          IN IF A = "null" \/ B = "null" THEN {} ELSE rangeWalk(DAY_INDEX(A), B, 0)

\* parseSchedule comparing the raw string with the keywords as it is typed
parseSchedule_raw(raw) ==
  LET s == raw
  IN IF s = <<>> \/ s = <<"d", "a", "i", "l", "y">> \/ s = <<"a", "l", "l">>
          \/ s = <<"e", "v", "e", "r", "y", "d", "a", "y">>
     THEN [kind |-> "daily", days |-> {DAY_KEYS[i] : i \in 1..DaysPerWeek}]
     ELSE IF s = <<"w", "e", "e", "k", "d", "a", "y", "s">>
     THEN [kind |-> "weekdays", days |-> WEEKDAYS]
     ELSE IF s = <<"w", "e", "e", "k", "e", "n", "d", "s">>
     THEN [kind |-> "weekends", days |-> WEEKENDS]
     ELSE LET toks == tokensFrom(toLowerCase(trim(s)), <<>>, <<>>)
          IN [kind |-> "days", days |-> UNION {tokenDays(toks[i]) : i \in DOMAIN toks}]

\* parseSchedule(raw)
parseSchedule(raw) ==
  LET s == toLowerCase(trim(raw))
  IN IF s = <<>> \/ s = <<"d", "a", "i", "l", "y">> \/ s = <<"a", "l", "l">>
          \/ s = <<"e", "v", "e", "r", "y", "d", "a", "y">>
     THEN [kind |-> "daily", days |-> {DAY_KEYS[i] : i \in 1..DaysPerWeek}]
     ELSE IF s = <<"w", "e", "e", "k", "d", "a", "y", "s">>
     THEN [kind |-> "weekdays", days |-> WEEKDAYS]
     ELSE IF s = <<"w", "e", "e", "k", "e", "n", "d", "s">>
     THEN [kind |-> "weekends", days |-> WEEKENDS]
     ELSE LET toks == tokensFrom(s, <<>>, <<>>)
          IN [kind |-> "days", days |-> UNION {tokenDays(toks[i]) : i \in DOMAIN toks}]

\* isScheduledOnDate(schedule, date), getDay being date.getDay()
isScheduledOnDate(schedule, getDay) == DAY_KEYS[getDay + 1] \in parseSchedule(schedule).days

(* ------------------------------ XP ledger ------------------------------ *)
\* Math.round(x) for x = n / d, n >= 0, d > 0: floor(x + 1/2)
MathRound(n, d) == (2 * n + d) \div (2 * d)

RECURSIVE ISqrtIn(_, _, _)
\* largest r in lo..hi with r * r <= n
ISqrtIn(n, lo, hi) ==
  IF lo >= hi THEN lo
  ELSE LET mid == (lo + hi + 1) \div 2
       IN IF mid * mid <= n THEN ISqrtIn(n, mid, hi) ELSE ISqrtIn(n, lo, mid - 1)

\* Math.round(levelingBase * Math.pow(level, 1.5)): level^1.5 is
\* sqrt(level^3), and round(sqrt(n)) is floor(sqrt(n)) + 1 exactly when
\* n > r*r + r (sqrt(n) is never r + 1/2 for an integer n)
getXPForNextLevel(level) ==
  LET n == levelingBase * levelingBase * level * level * level
      r == ISqrtIn(n, 0, levelingBase * level * level)
  IN IF n > r * r + r THEN r + 1 ELSE r

\* calculateXP paying the actual time whatever the estimate
calculateXP_actual(estimateMinutes, actualTicks) ==
  IF estimateMinutes # NoEstimate /\ estimateMinutes # 0 /\ estimateMinutes > 0
  THEN MathRound(actualTicks * xpPerMinute, TicksPerMinute)
  ELSE flatXp

\* calculateXP(estimateMinutes, actualMinutes), actual given in ticks
calculateXP(estimateMinutes, actualTicks) ==
  IF estimateMinutes # NoEstimate /\ estimateMinutes # 0 /\ estimateMinutes > 0
  THEN MathRound(Max(estimateMinutes * TicksPerMinute, actualTicks) * xpPerMinute,
                 TicksPerMinute)
  ELSE flatXp

RECURSIVE LevelUp(_)
\* the while loop of awardXP
LevelUp(p) ==
  IF p.xp >= getXPForNextLevel(p.level)
  THEN LevelUp([level |-> p.level + 1, xp |-> p.xp - getXPForNextLevel(p.level)])
  ELSE p

\* awardXP with a single if in place of the while
awardXP_once(p, xp) ==
  LET q == [level |-> p.level, xp |-> p.xp + xp]
  IN IF q.xp >= getXPForNextLevel(q.level)
     THEN [level |-> q.level + 1, xp |-> q.xp - getXPForNextLevel(q.level)]
     ELSE q

\* awardXP raising the level before it subtracts the threshold
awardXP_late(p, xp) ==
  LET RECURSIVE Up(_)
      Up(q) == IF q.xp >= getXPForNextLevel(q.level)
               THEN Up([level |-> q.level + 1, xp |-> q.xp - getXPForNextLevel(q.level + 1)])
               ELSE q
  IN Up([level |-> p.level, xp |-> p.xp + xp])

\* awardXP(xp) applied to the player p
awardXP(p, xp) == LevelUp([level |-> p.level, xp |-> p.xp + xp])

RECURSIVE LevelDown(_)
\* while (p.xp < 0 && p.level > 1) { p.level--; p.xp += need(p.level); }
LevelDown(p) ==
  IF p.xp < 0 /\ p.level > 1
  THEN LevelDown([level |-> p.level - 1, xp |-> p.xp + getXPForNextLevel(p.level - 1)])
  ELSE p

\* the revert adding back the threshold of the level it leaves
revertXP_late(p, xp) ==
  LET RECURSIVE Down(_)
      Down(q) == IF q.xp < 0 /\ q.level > 1
                 THEN Down([level |-> q.level - 1, xp |-> q.xp + getXPForNextLevel(q.level)])
                 ELSE q
      d == Down([level |-> p.level, xp |-> p.xp - xp])
  IN [level |-> d.level, xp |-> Max(0, d.xp)]

\* the revert taking the xp off the current level only
revertXP_floor(p, xp) == [level |-> p.level, xp |-> Max(0, p.xp - xp)]

\* the revert of uncompleteQuest applied to the player p
revertXP(p, xp) ==
  LET d == LevelDown([level |-> p.level, xp |-> p.xp - xp])
  IN [level |-> d.level, xp |-> IF d.xp < 0 THEN 0 ELSE d.xp]

\* the revert's level-1 floor: xp still negative once the loop has ended
floorClampEngaged(p, xp) == LevelDown([level |-> p.level, xp |-> p.xp - xp]).xp < 0

(* ------------------------------- state --------------------------------- *)
VARIABLES
  quests,       \* questLog.quests: the array of quest objects
  completions,  \* questLog.completions: the array of completion records
  player,       \* questLog.player: [level, xp]
  timerState,   \* questLog.timerState: [activeQuestId, startTime, pausedSessions]
  day,          \* questLog.day: the logical day of the last rollover
  resetHour,    \* settings.dailyResetHour
  now,          \* the wall clock, Date.now(), in ticks
  tasks,        \* the handlers suspended at an await, each with its locals
  nextId,       \* the id genId() gives the next quest
  last,         \* the handler called last and how it ended
  calc,         \* the inputs and results of the runs of the pure functions
  done          \* per quest, the logical days completed and not undone since

logVars == <<quests, completions, player, timerState, day>>
vars == <<quests, completions, player, timerState, day, resetHour, now, tasks,
          nextId, last, calc, done>>

NoPaused == [q \in {} |-> 0]      \* pausedSessions: {}
NoTimer == [activeQuestId |-> NULL, startTime |-> NULL, pausedSessions |-> NoPaused]
NoCalc == [phase |-> "none", p0 |-> [level |-> 1, xp |-> 0],
           p1 |-> [level |-> 1, xp |-> 0], x |-> 0,
           est |-> NoEstimate, act |-> 0, xp |-> 0]

\* initializeQuestLog(): the fresh default record
initializeQuestLog(rh, t) ==
  [quests |-> <<>>, completions |-> <<>>, player |-> [level |-> 1, xp |-> 0],
   timerState |-> NoTimer, day |-> todayStr(rh, t)]

\* a quest object as createQuest builds it; the category is a name already
\* trimmed and lower-cased
Quest(id, category, schedule, estimateMinutes, order) ==
  [id |-> id, category |-> category, schedule |-> trim(schedule),
   estimateMinutes |-> IF estimateMinutes > 0 THEN estimateMinutes ELSE NoEstimate,
   order |-> order, archived |-> FALSE]

Categories == {"a", "b"}           \* categories typed into createQuest
DailyChars == <<"d", "a", "i", "l", "y">>
WeekendsChars == <<"w", "e", "e", "k", "e", "n", "d", "s">>

\* the log loadQuestLog() reads at startup: the quests created earlier (one
\* due daily without an estimate, one due at weekends with an estimate),
\* nothing completed, the timer idle
LoadedQuests ==
  <<Quest(1, "a", DailyChars, 0, 0), Quest(2, "b", WeekendsChars, LongEstimate, 1)>>

Init ==
  /\ resetHour = DefaultResetHour
  /\ now = StartNow
  /\ quests = LoadedQuests
  /\ completions = initializeQuestLog(resetHour, now).completions
  /\ player = initializeQuestLog(resetHour, now).player
  /\ timerState = initializeQuestLog(resetHour, now).timerState
  /\ day = initializeQuestLog(resetHour, now).day
  /\ tasks = <<>>
  /\ nextId = Len(LoadedQuests) + 1
  /\ last = [op |-> "onload", id |-> NULL, res |-> "ok"]
  /\ calc = NoCalc
  /\ done = [q \in QuestIds |-> {}]

(* ------------------------------ queries -------------------------------- *)
\* questLog.quests.find((x) => x.id === id): the index of the first match, 0 if none
findIndex(id) ==
  IF \E i \in DOMAIN quests : quests[i].id = id
  THEN CHOOSE i \in DOMAIN quests :
         quests[i].id = id /\ \A j \in DOMAIN quests : quests[j].id = id => i <= j
  ELSE 0

RECURSIVE SortByOrder(_)
\* Array.prototype.sort((a, b) => a.order - b.order): stable insertion by order
SortByOrder(s) ==
  IF Len(s) <= 1 THEN s
  ELSE LET rest == SortByOrder(Tail(s))
           k == Cardinality({i \in DOMAIN rest : rest[i].order < Head(s).order})
       IN SubSeq(rest, 1, k) \o <<Head(s)>> \o SubSeq(rest, k + 1, Len(rest))

\* getActiveQuests without the archived filter
getActiveQuests_all == SortByOrder(quests)

getActiveQuests == SortByOrder(SelectSeq(quests, LAMBDA q : ~q.archived))

\* Date.getDay() of the instant t; day number 0 is 1 January 1970, a Thursday
getDayOf(t) == (toLocalDMY(t) + EpochWeekday) % DaysPerWeek

\* getTodayQuests() and getOtherQuests()
getTodayQuests ==
  SelectSeq(getActiveQuests,
            LAMBDA q : isScheduledOnDate(q.schedule, getDayOf(getLogicalToday(resetHour, now))))
getOtherQuests ==
  SelectSeq(getActiveQuests,
            LAMBDA q : ~isScheduledOnDate(q.schedule, getDayOf(getLogicalToday(resetHour, now))))

\* isCompletedToday with the date test left out of the search
isCompletedToday_anyDay(questId) ==
  \E i \in DOMAIN completions : completions[i].questId = questId

\* isCompletedToday that never finds a completion
isCompletedToday_never(questId) == FALSE

isCompletedToday(questId) ==
  \E i \in DOMAIN completions :
    completions[i].questId = questId /\ completions[i].date = todayStr(resetHour, now)

\* s.pausedSessions[questId] || 0
pausedOf(s, questId) ==
  IF questId \in DOMAIN s.pausedSessions THEN s.pausedSessions[questId] ELSE 0

\* getActiveElapsedMinutes() without Math.max(0, ...)
getActiveElapsedMinutes_raw(s) ==
  IF s.activeQuestId # NULL /\ s.startTime # NULL THEN now - s.startTime ELSE 0

\* getActiveElapsedMinutes() on the timer state s, in ticks
getActiveElapsedMinutes(s) ==
  IF s.activeQuestId # NULL /\ s.startTime # NULL THEN Max(0, now - s.startTime) ELSE 0

\* getTotalMinutes(questId) on the timer state s, in ticks
getTotalMinutes(s, questId) ==
  IF s.activeQuestId = questId
  THEN pausedOf(s, questId) + getActiveElapsedMinutes(s)
  ELSE pausedOf(s, questId)

\* pausedSessions with the entry of id set to v
SetPaused(ps, id, v) == [q \in DOMAIN ps \cup {id} |-> IF q = id THEN v ELSE ps[q]]

\* delete pausedSessions[id]
DeletePaused(ps, id) == [q \in DOMAIN ps \ {id} |-> ps[q]]

(* --------------------------- suspended handlers ------------------------ *)
\* A handler suspended at an await.  pc names the await: "save" is the save
\* of the handler's final commit(), "pause" the save inside the pauseQuest
\* it awaits, "settings" the saveSettings() of the reset-hour handler.
\* other and prevTotal are the quest an implicit pause folded and its total
\* time at the call; alone says no other handler has changed the timer
\* state since the call.
Task(op, pc, id, other, prevTotal) ==
  [op |-> op, pc |-> pc, id |-> id, other |-> other, prevTotal |-> prevTotal,
   alone |-> TRUE]

SaveTask(op, id) == Task(op, "save", id, NULL, 0)

\* the suspended handlers once another handler has changed the timer state
Disturbed(ts) ==
  [i \in DOMAIN ts |-> IF ts[i].pc = "pause" THEN [ts[i] EXCEPT !.alone = FALSE] ELSE ts[i]]

\* s.splice(i, 1), i counted from 1: past the end nothing is removed
RemoveAt(s, i) ==
  IF i \in DOMAIN s THEN SubSeq(s, 1, i - 1) \o SubSeq(s, i + 1, Len(s)) ELSE s

\* the handlers that may hang at an await at once: one more where the
\* overlap of handlers is what is looked at
PendingLimit == IF calc.phase = "overlap" THEN MaxPending + 1 ELSE MaxPending

\* room for one more suspended handler
CanSuspend == Len(tasks) < PendingLimit

\* a handler that returns at a guard: a notice at most, nothing written
Return(op, id, res) ==
  /\ last' = [op |-> op, id |-> id, res |-> res]
  /\ UNCHANGED <<quests, completions, player, timerState, day, resetHour, now,
                 tasks, nextId, calc, done>>

(* ------------------------------ the timer ------------------------------ *)
\* the pause overwriting the bucket with the elapsed time
pauseFold_overwrite(s, questId) ==
  [activeQuestId |-> NULL, startTime |-> NULL,
   pausedSessions |-> SetPaused(s.pausedSessions, questId, getActiveElapsedMinutes(s))]

\* the pause clearing the active slot without banking the elapsed time
pauseFold_drop(s, questId) ==
  [activeQuestId |-> NULL, startTime |-> NULL, pausedSessions |-> s.pausedSessions]

\* the pause emptying the active slot and leaving the start time in place
pauseFold_keepStart(s, questId) ==
  [activeQuestId |-> NULL, startTime |-> s.startTime,
   pausedSessions |-> SetPaused(s.pausedSessions, questId,
                                pausedOf(s, questId) + getActiveElapsedMinutes(s))]

\* the synchronous part of pauseQuest(questId) when questId is active
pauseFold(s, questId) ==
  [activeQuestId |-> NULL, startTime |-> NULL,
   pausedSessions |-> SetPaused(s.pausedSessions, questId,
                                pausedOf(s, questId) + getActiveElapsedMinutes(s))]

\* startQuest with the archived test left out
startRefused_noArchive(questId) ==
  IF isCompletedToday(questId) THEN "completed"
  ELSE IF findIndex(questId) = 0 THEN "notfound"
  ELSE "no"

\* the guards of startQuest: why the call returns at once, "no" if it goes on
startRefused(questId) ==
  IF isCompletedToday(questId) THEN "completed"
  ELSE IF findIndex(questId) = 0 THEN "notfound"
  ELSE IF quests[findIndex(questId)].archived THEN "archived"
  ELSE "no"

\* startQuest(questId), called as op ("start", or "resume" by resumeQuest), up
\* to its first await
startCall(op, questId) ==
  IF startRefused(questId) # "no" THEN Return(op, questId, startRefused(questId))
  ELSE
    /\ IF timerState.activeQuestId # NULL /\ timerState.activeQuestId # questId
       THEN \* await this.pauseQuest(s.activeQuestId): suspended at its save
         /\ CanSuspend
         /\ timerState' = pauseFold(timerState, timerState.activeQuestId)
         /\ tasks' = Append(Disturbed(tasks),
                            Task(op, "pause", questId, timerState.activeQuestId,
                                 getTotalMinutes(timerState, timerState.activeQuestId)))
         /\ last' = [op |-> op, id |-> questId, res |-> "pausing"]
       ELSE
         /\ CanSuspend
         /\ timerState' = [timerState EXCEPT !.activeQuestId = questId, !.startTime = now]
         /\ tasks' = Append(Disturbed(tasks), SaveTask(op, questId))
         /\ last' = [op |-> op, id |-> questId, res |-> "ok"]
    /\ UNCHANGED <<quests, completions, player, day, resetHour, now, nextId, calc, done>>

StartQuest(questId) == startCall("start", questId)

\* resumeQuest(questId) { return this.startQuest(questId); }
ResumeQuest(questId) == startCall("resume", questId)

\* startQuest after its await of pauseQuest: the quest becomes the active one
StartContinue(i) ==
  /\ i \in DOMAIN tasks
  /\ tasks[i].op \in {"start", "resume"} /\ tasks[i].pc = "pause"
  /\ timerState' = [timerState EXCEPT !.activeQuestId = tasks[i].id, !.startTime = now]
  /\ tasks' = [Disturbed(tasks) EXCEPT ![i] = [tasks[i] EXCEPT !.pc = "save"]]
  /\ UNCHANGED <<quests, completions, player, day, resetHour, now, nextId, last, calc, done>>

\* pauseQuest(questId)
PauseQuest(questId) ==
  IF timerState.activeQuestId # questId THEN Return("pause", questId, "noop")
  ELSE
    /\ CanSuspend
    /\ timerState' = pauseFold(timerState, questId)
    /\ tasks' = Append(Disturbed(tasks), SaveTask("pause", questId))
    /\ last' = [op |-> "pause", id |-> questId, res |-> "ok"]
    /\ UNCHANGED <<quests, completions, player, day, resetHour, now, nextId, calc, done>>

(* ----------------------------- completions ----------------------------- *)
\* the drop that clears the active slot and leaves the paused bucket behind
clearQuestTimer_keepBucket(s, id) ==
  [activeQuestId |-> IF s.activeQuestId = id THEN NULL ELSE s.activeQuestId,
   startTime |-> IF s.activeQuestId = id THEN NULL ELSE s.startTime,
   pausedSessions |-> s.pausedSessions]

\* the timer state once completeQuest or deleteQuest has dropped the quest
clearQuestTimer(s, id) ==
  [activeQuestId |-> IF s.activeQuestId = id THEN NULL ELSE s.activeQuestId,
   startTime |-> IF s.activeQuestId = id THEN NULL ELSE s.startTime,
   pausedSessions |-> DeletePaused(s.pausedSessions, id)]

\* completeQuest(quest)
completeCall(quest) ==
     LET id == quest.id
         minutes == getTotalMinutes(timerState, id)
         xp == calculateXP(quest.estimateMinutes, minutes)
     IN IF quest.archived THEN Return("complete", id, "archived")
        ELSE IF isCompletedToday(id) THEN Return("complete", id, "completed")
        ELSE
          /\ CanSuspend
          /\ player' = awardXP(player, xp)
          /\ completions' = Append(completions,
               [questId |-> id, date |-> todayStr(resetHour, now),
                minutesSpent |-> MathRound(minutes, TicksPerMinute), xpEarned |-> xp])
          /\ timerState' = clearQuestTimer(timerState, id)
          /\ tasks' = Append(Disturbed(tasks), SaveTask("complete", id))
          /\ last' = [op |-> "complete", id |-> id, res |-> "ok"]
          /\ done' = [done EXCEPT ![id] = @ \cup {todayStr(resetHour, now)}]
          /\ UNCHANGED <<quests, day, resetHour, now, nextId, calc>>

\* completeQuest(quest) for the quest object of the list whose id is id
CompleteQuest(id) ==
  /\ findIndex(id) # 0
  /\ completeCall(quests[findIndex(id)])

\* completeQuest(quest) from the checkbox of a quest the view still shows
\* while the deleteQuest that removed it hangs at its save, before refreshView
CompleteStale(i) ==
  /\ i \in DOMAIN tasks
  /\ tasks[i].op = "delete" /\ tasks[i].pc = "save"
  /\ completeCall(tasks[i].other)

\* uncompleteQuest searching and filtering by quest id alone, whatever the date
UncompleteQuest_anyDay(questId) ==
  LET match(c) == c.questId = questId
      found == {i \in DOMAIN completions : match(completions[i])}
  IN IF found = {} THEN Return("uncomplete", questId, "noop")
     ELSE
       LET completion == completions[CHOOSE i \in found : \A j \in found : i <= j]
       IN /\ CanSuspend
          /\ player' = revertXP(player, completion.xpEarned)
          /\ completions' = SelectSeq(completions, LAMBDA c : ~match(c))
          /\ tasks' = Append(tasks, SaveTask("uncomplete", questId))
          /\ last' = [op |-> "uncomplete", id |-> questId, res |-> "ok"]
          /\ done' = [done EXCEPT ![questId] = {}]
          /\ UNCHANGED <<quests, timerState, day, resetHour, now, nextId, calc>>

\* uncompleteQuest(questId)
UncompleteQuest(questId) ==
  LET t == todayStr(resetHour, now)
      match(c) == c.questId = questId /\ c.date = t
      found == {i \in DOMAIN completions : match(completions[i])}
  IN IF found = {} THEN Return("uncomplete", questId, "noop")
     ELSE
       LET completion == completions[CHOOSE i \in found : \A j \in found : i <= j]
       IN /\ CanSuspend
          /\ player' = revertXP(player, completion.xpEarned)
          /\ completions' = SelectSeq(completions, LAMBDA c : ~match(c))
          /\ tasks' = Append(tasks, SaveTask("uncomplete", questId))
          /\ last' = [op |-> "uncomplete", id |-> questId, res |-> "ok"]
          /\ done' = [done EXCEPT ![questId] = @ \ {t}]
          /\ UNCHANGED <<quests, timerState, day, resetHour, now, nextId, calc>>

(* ------------------------------ the registry --------------------------- *)
\* q.archived = v for the quest object with the given id
SetArchived(qs, id, v) ==
  [i \in DOMAIN qs |-> IF qs[i].id = id THEN [qs[i] EXCEPT !.archived = v] ELSE qs[i]]

\* createQuest({ name, category, schedule, estimateMinutes })
CreateQuest(category, schedule, estimateMinutes) ==
  /\ nextId <= NumQuests
  /\ CanSuspend
  /\ quests' = Append(quests,
                   Quest(nextId, category, schedule, estimateMinutes,
                         Len(getActiveQuests)))
  /\ nextId' = nextId + 1
  /\ tasks' = Append(tasks, SaveTask("create", nextId))
  /\ last' = [op |-> "create", id |-> nextId, res |-> "ok"]
  /\ UNCHANGED <<completions, player, timerState, day, resetHour, now, calc, done>>

\* archiveQuest(id) up to its first await
ArchiveQuest(id) ==
  IF findIndex(id) = 0 THEN Return("archive", id, "notfound")
  ELSE IF quests[findIndex(id)].archived THEN Return("archive", id, "archived")
  ELSE
    /\ IF timerState.activeQuestId = id
       THEN \* await this.pauseQuest(id): suspended at its save
         /\ CanSuspend
         /\ timerState' = pauseFold(timerState, id)
         /\ tasks' = Append(Disturbed(tasks),
                            Task("archive", "pause", id, id, getTotalMinutes(timerState, id)))
         /\ last' = [op |-> "archive", id |-> id, res |-> "pausing"]
         /\ UNCHANGED quests
       ELSE
         /\ CanSuspend
         /\ quests' = SetArchived(quests, id, TRUE)
         /\ tasks' = Append(tasks, SaveTask("archive", id))
         /\ last' = [op |-> "archive", id |-> id, res |-> "ok"]
         /\ UNCHANGED timerState
    /\ UNCHANGED <<completions, player, day, resetHour, now, nextId, calc, done>>

\* archiveQuest after its await of pauseQuest, clearing the bucket as the soft
\* delete of the older variant does
ArchiveContinue_clear(i) ==
  /\ i \in DOMAIN tasks
  /\ tasks[i].op = "archive" /\ tasks[i].pc = "pause"
  /\ quests' = SetArchived(quests, tasks[i].id, TRUE)
  /\ timerState' = clearQuestTimer(timerState, tasks[i].id)
  /\ tasks' = [tasks EXCEPT ![i].pc = "save"]
  /\ UNCHANGED <<completions, player, day, resetHour, now, nextId, last, calc, done>>

\* archiveQuest after its await of pauseQuest
ArchiveContinue(i) ==
  /\ i \in DOMAIN tasks
  /\ tasks[i].op = "archive" /\ tasks[i].pc = "pause"
  /\ quests' = SetArchived(quests, tasks[i].id, TRUE)
  /\ tasks' = [tasks EXCEPT ![i].pc = "save"]
  /\ UNCHANGED <<completions, player, timerState, day, resetHour, now, nextId, last, calc, done>>

\* unarchiveQuest(id)
UnarchiveQuest(id) ==
  IF findIndex(id) = 0 THEN Return("unarchive", id, "notfound")
  ELSE IF ~quests[findIndex(id)].archived THEN Return("unarchive", id, "notarchived")
  ELSE
    /\ CanSuspend
    /\ quests' = SetArchived(quests, id, FALSE)
    /\ tasks' = Append(tasks, SaveTask("unarchive", id))
    /\ last' = [op |-> "unarchive", id |-> id, res |-> "ok"]
    /\ UNCHANGED <<completions, player, timerState, day, resetHour, now, nextId, calc, done>>

\* the reordering and the deletion leaving the order values as they are
Renumber_keep(s) == s

\* quests.forEach((q, i) => (q.order = i))
Renumber(s) == [i \in DOMAIN s |-> [s[i] EXCEPT !.order = i - 1]]

\* the ids of the quests of a category, and the lists of them a drag can give
IdsOf(category) == {quests[i].id : i \in {j \in DOMAIN quests : quests[j].category = category}}
ReorderInputs(category) ==
  UNION {{ids \in [1..n -> IdsOf(category)] : \A i, j \in 1..n : ids[i] = ids[j] => i = j} :
         n \in 0..Cardinality(IdsOf(category))}

\* reorderQuests(questIds, category)
ReorderQuests(questIds, category) ==
  LET inCat == SelectSeq(quests, LAMBDA q : q.category = category)
      base == IF Len(inCat) > 0
              THEN CHOOSE m \in {inCat[i].order : i \in DOMAIN inCat} :
                     \A i \in DOMAIN inCat : m <= inCat[i].order
              ELSE 0
      placed == [i \in DOMAIN quests |->
                   IF \E k \in DOMAIN questIds : questIds[k] = quests[i].id
                   THEN [quests[i] EXCEPT !.order =
                           base + (CHOOSE k \in DOMAIN questIds : questIds[k] = quests[i].id) - 1]
                   ELSE quests[i]]
  IN /\ CanSuspend
     /\ quests' = Renumber(SortByOrder(placed))
     /\ tasks' = Append(tasks, SaveTask("reorder", NULL))
     /\ last' = [op |-> "reorder", id |-> NULL, res |-> "ok"]
     /\ UNCHANGED <<completions, player, timerState, day, resetHour, now, nextId, calc, done>>

\* a confirm dialog is open: the modal takes the clicks the handlers hang on
DialogOpen == \E i \in DOMAIN tasks : tasks[i].pc = "confirm"

\* deleteQuest from the answer of the dialog on, the completions left in place
deleteConfirmed_keepHistory(idx, id) ==
  /\ timerState' = clearQuestTimer(timerState, id)
  /\ completions' = completions
  /\ quests' = Renumber(SortByOrder(RemoveAt(quests, idx)))
  /\ UNCHANGED <<player, day, resetHour, now, nextId, calc, done>>

\* deleteQuest from the answer of the dialog on: the quest at idx, found before
\* the dialog, is spliced out (nothing when idx is past the end by now)
deleteConfirmed(idx, id) ==
  /\ timerState' = clearQuestTimer(timerState, id)
  /\ completions' = SelectSeq(completions, LAMBDA c : c.questId # id)
  /\ quests' = Renumber(SortByOrder(RemoveAt(quests, idx)))
  /\ UNCHANGED <<player, day, resetHour, now, nextId, calc, done>>

\* deleteQuest(id, skipConfirm) up to its first await
DeleteQuest(id, skipConfirm) ==
  IF findIndex(id) = 0 THEN Return("delete", id, "notfound")
  ELSE IF skipConfirm
  THEN /\ CanSuspend
       /\ deleteConfirmed(findIndex(id), id)
       /\ tasks' = Append(Disturbed(tasks),
                          Task("delete", "save", id, quests[findIndex(id)],
                               getTotalMinutes(timerState, id)))
       /\ last' = [op |-> "delete", id |-> id, res |-> "ok"]
  ELSE /\ CanSuspend
       /\ tasks' = Append(tasks, Task("delete", "confirm", id,
                                      [idx |-> findIndex(id), q |-> quests[findIndex(id)]], 0))
       /\ last' = [op |-> "delete", id |-> id, res |-> "asking"]
       /\ UNCHANGED <<quests, completions, player, timerState, day, resetHour, now,
                      nextId, calc, done>>

\* deleteQuest after the dialog has answered; a dialog cancelled or closed
\* without an answer writes nothing
DeleteContinue(i, ok) ==
  /\ i \in DOMAIN tasks
  /\ tasks[i].op = "delete" /\ tasks[i].pc = "confirm"
  /\ IF ok
     THEN /\ deleteConfirmed(tasks[i].other.idx, tasks[i].id)
          /\ tasks' = [Disturbed(tasks) EXCEPT ![i].pc = "save",
                                               ![i].other = tasks[i].other.q,
                                               ![i].prevTotal =
                                                 getTotalMinutes(timerState, tasks[i].id)]
          /\ last' = [op |-> "delete", id |-> tasks[i].id, res |-> "ok"]
     ELSE /\ tasks' = RemoveAt(tasks, i)
          /\ last' = [op |-> "delete", id |-> tasks[i].id, res |-> "declined"]
          /\ UNCHANGED <<quests, completions, player, timerState, day, resetHour, now,
                         nextId, calc, done>>

\* resetAllData() up to its await of the confirm dialog
ResetAllData ==
  /\ CanSuspend
  /\ tasks' = Append(tasks, Task("reset", "confirm", NULL, NULL, 0))
  /\ last' = [op |-> "reset", id |-> NULL, res |-> "asking"]
  /\ UNCHANGED <<quests, completions, player, timerState, day, resetHour, now,
                 nextId, calc, done>>

\* resetAllData after the dialog, the player left as it was
ResetContinue_keepPlayer(i, ok) ==
  /\ i \in DOMAIN tasks
  /\ tasks[i].op = "reset" /\ tasks[i].pc = "confirm"
  /\ IF ok
     THEN /\ quests' = initializeQuestLog(resetHour, now).quests
          /\ completions' = initializeQuestLog(resetHour, now).completions
          /\ player' = player
          /\ timerState' = initializeQuestLog(resetHour, now).timerState
          /\ day' = initializeQuestLog(resetHour, now).day
          /\ tasks' = [Disturbed(tasks) EXCEPT ![i].pc = "save", ![i].other = player]
          /\ last' = [op |-> "reset", id |-> NULL, res |-> "ok"]
          /\ done' = [q \in QuestIds |-> {}]
          /\ UNCHANGED <<resetHour, now, nextId, calc>>
     ELSE /\ tasks' = RemoveAt(tasks, i)
          /\ last' = [op |-> "reset", id |-> NULL, res |-> "declined"]
          /\ UNCHANGED <<quests, completions, player, timerState, day, resetHour, now,
                         nextId, calc, done>>

\* resetAllData after the dialog has answered: initializeQuestLog(), then
\* commit(); the task keeps the player that was reset
ResetContinue(i, ok) ==
  /\ i \in DOMAIN tasks
  /\ tasks[i].op = "reset" /\ tasks[i].pc = "confirm"
  /\ IF ok
     THEN /\ quests' = initializeQuestLog(resetHour, now).quests
          /\ completions' = initializeQuestLog(resetHour, now).completions
          /\ player' = initializeQuestLog(resetHour, now).player
          /\ timerState' = initializeQuestLog(resetHour, now).timerState
          /\ day' = initializeQuestLog(resetHour, now).day
          /\ tasks' = [Disturbed(tasks) EXCEPT ![i].pc = "save", ![i].other = player]
          /\ last' = [op |-> "reset", id |-> NULL, res |-> "ok"]
          /\ done' = [q \in QuestIds |-> {}]
          /\ UNCHANGED <<resetHour, now, nextId, calc>>
     ELSE /\ tasks' = RemoveAt(tasks, i)
          /\ last' = [op |-> "reset", id |-> NULL, res |-> "declined"]
          /\ UNCHANGED <<quests, completions, player, timerState, day, resetHour, now,
                         nextId, calc, done>>

(* ------------------------------ rollover ------------------------------- *)
\* ensureDailyRollover() when the stored day differs: the log fields it writes
rolloverDue == day # todayStr(resetHour, now)

\* the rollover that pauses the running quest and keeps the paused buckets
RolloverTick_fold ==
  IF ~rolloverDue
  THEN Return("rollover", NULL, "noop")
  ELSE
    /\ CanSuspend
    /\ timerState' = IF timerState.activeQuestId # NULL
                     THEN pauseFold(timerState, timerState.activeQuestId)
                     ELSE timerState
    /\ day' = todayStr(resetHour, now)
    /\ tasks' = Append(Disturbed(tasks), SaveTask("rollover", NULL))
    /\ last' = [op |-> "rollover", id |-> NULL, res |-> "ok"]
    /\ UNCHANGED <<quests, completions, player, resetHour, now, nextId, calc, done>>

\* the periodic tick: setInterval(() => this.ensureDailyRollover(), 60_000)
RolloverTick ==
  IF ~rolloverDue
  THEN Return("rollover", NULL, "noop")
  ELSE
    /\ CanSuspend
    /\ timerState' = NoTimer
    /\ day' = todayStr(resetHour, now)
    /\ tasks' = Append(Disturbed(tasks), SaveTask("rollover", NULL))
    /\ last' = [op |-> "rollover", id |-> NULL, res |-> "ok"]
    /\ UNCHANGED <<quests, completions, player, resetHour, now, nextId, calc, done>>

\* the settings tab's onChange: dailyResetHour = n, then await saveSettings()
SetResetHour(n) ==
  /\ n \in 0..MaxResetHour /\ n # resetHour
  /\ CanSuspend
  /\ resetHour' = n
  /\ tasks' = Append(tasks, Task("setResetHour", "settings", NULL, NULL, 0))
  /\ last' = [op |-> "setResetHour", id |-> NULL, res |-> "ok"]
  /\ UNCHANGED <<quests, completions, player, timerState, day, now, nextId, calc, done>>

\* the onChange handler after saveSettings(): await ensureDailyRollover(true)
SetResetHourContinue(i) ==
  /\ i \in DOMAIN tasks
  /\ tasks[i].pc = "settings"
  /\ IF rolloverDue
     THEN /\ timerState' = NoTimer
          /\ day' = todayStr(resetHour, now)
          /\ tasks' = [Disturbed(tasks) EXCEPT ![i] = SaveTask("rollover", NULL)]
     ELSE /\ tasks' = RemoveAt(tasks, i)
          /\ UNCHANGED <<timerState, day>>
  /\ UNCHANGED <<quests, completions, player, resetHour, now, nextId, last, calc, done>>

(* ---------------------------- saves and clock -------------------------- *)
\* a save completes: commit() goes on to refreshView() and the handler ends
SaveDone(i) ==
  /\ i \in DOMAIN tasks
  /\ tasks[i].pc = "save"
  /\ tasks' = RemoveAt(tasks, i)
  /\ UNCHANGED <<quests, completions, player, timerState, day, resetHour, now,
                 nextId, last, calc, done>>

\* the clock advances taken to reach the instant t
ClockSteps(t) ==
  2 * ((t - StartNow) \div TicksPerHour)
    + (IF (t - StartNow) % TicksPerHour > 0 THEN 1 ELSE 0)

\* the wall clock passes from the last tick of an hour to the full hour
ClockTick ==
  /\ ClockSteps(now) < MaxClockSteps
  /\ now % TicksPerHour = TicksPerHour - 1
  /\ now' = now + 1
  /\ UNCHANGED <<quests, completions, player, timerState, day, resetHour, tasks,
                 nextId, last, calc, done>>

\* the wall clock passes from the full hour to the last tick of that hour
ClockHour ==
  /\ ClockSteps(now) < MaxClockSteps
  /\ now % TicksPerHour = 0
  /\ now' = now + TicksPerHour - 1
  /\ UNCHANGED <<quests, completions, player, timerState, day, resetHour, tasks,
                 nextId, last, calc, done>>

Next ==
  \/ \E c \in Categories, e \in EstimateInputs : CreateQuest(c, DailyChars, e)
  \/ \E q \in QuestIds : StartQuest(q)
  \/ \E q \in QuestIds : ResumeQuest(q)
  \/ \E q \in QuestIds : PauseQuest(q)
  \/ \E q \in QuestIds : CompleteQuest(q)
  \/ \E q \in QuestIds : UncompleteQuest(q)
  \/ \E q \in QuestIds : ArchiveQuest(q)
  \/ \E q \in QuestIds : UnarchiveQuest(q)
  \/ RolloverTick
  \/ \E n \in 0..MaxResetHour : SetResetHour(n)
  \/ \E i \in 1..MaxPending : StartContinue(i)
  \/ \E i \in 1..MaxPending : ArchiveContinue(i)
  \/ \E i \in 1..MaxPending : SetResetHourContinue(i)
  \/ \E i \in 1..MaxPending : SaveDone(i)
  \/ ClockTick
  \/ ClockHour

Spec == Init /\ [][Next]_vars

\* the quest list alone, from the fresh log on: create, archive, unarchive,
\* delete, reorder
InitRegistry ==
  /\ resetHour = DefaultResetHour
  /\ now = StartNow
  /\ quests = initializeQuestLog(resetHour, now).quests
  /\ completions = initializeQuestLog(resetHour, now).completions
  /\ player = initializeQuestLog(resetHour, now).player
  /\ timerState = initializeQuestLog(resetHour, now).timerState
  /\ day = initializeQuestLog(resetHour, now).day
  /\ tasks = <<>>
  /\ nextId = 1
  /\ last = [op |-> "onload", id |-> NULL, res |-> "ok"]
  /\ calc = NoCalc
  /\ done = [q \in QuestIds |-> {}]

NextRegistry ==
  \/ \E c \in Categories, e \in EstimateInputs : ~DialogOpen /\ CreateQuest(c, DailyChars, e)
  \/ \E q \in QuestIds : ~DialogOpen /\ ArchiveQuest(q)
  \/ \E q \in QuestIds : ~DialogOpen /\ UnarchiveQuest(q)
  \/ \E q \in QuestIds, skipConfirm \in BOOLEAN : ~DialogOpen /\ DeleteQuest(q, skipConfirm)
  \/ \E c \in Categories : \E ids \in ReorderInputs(c) : ~DialogOpen /\ ReorderQuests(ids, c)
  \/ \E i \in 1..MaxPending, ok \in BOOLEAN : DeleteContinue(i, ok)
  \/ \E i \in 1..MaxPending : SaveDone(i)

SpecRegistry == InitRegistry /\ [][NextRegistry]_vars

\* handlers overlapping: two may hang at an await while a third step runs
InitOverlap ==
  /\ resetHour = DefaultResetHour
  /\ now = StartNow
  /\ quests = LoadedQuests
  /\ completions = initializeQuestLog(resetHour, now).completions
  /\ player = initializeQuestLog(resetHour, now).player
  /\ timerState = initializeQuestLog(resetHour, now).timerState
  /\ day = initializeQuestLog(resetHour, now).day
  /\ tasks = <<>>
  /\ nextId = Len(LoadedQuests) + 1
  /\ last = [op |-> "onload", id |-> NULL, res |-> "ok"]
  /\ calc = [NoCalc EXCEPT !.phase = "overlap"]
  /\ done = [q \in QuestIds |-> {}]

\* the timer under overlapping starts and pauses
NextOverlap ==
  \/ \E q \in QuestIds : StartQuest(q)
  \/ \E q \in QuestIds : PauseQuest(q)
  \/ \E i \in 1..(MaxPending + 1) : StartContinue(i)
  \/ \E i \in 1..(MaxPending + 1) : SaveDone(i)
  \/ ClockTick
  \/ ClockHour

SpecOverlap == InitOverlap /\ [][NextOverlap]_vars

\* archiving and starting overlapping
NextArchive ==
  \/ \E q \in QuestIds : StartQuest(q)
  \/ \E q \in QuestIds : ArchiveQuest(q)
  \/ \E i \in 1..(MaxPending + 1) : StartContinue(i)
  \/ \E i \in 1..(MaxPending + 1) : ArchiveContinue(i)
  \/ \E i \in 1..(MaxPending + 1) : SaveDone(i)
  \/ ClockTick
  \/ ClockHour

SpecArchive == InitOverlap /\ [][NextArchive]_vars

\* deletion and reordering from two open quest views (refreshView renders
\* every leaf of the view type): the dialog of one view does not keep the
\* other view, in another window, from calling a handler
InitDialog ==
  /\ resetHour = DefaultResetHour
  /\ now = StartNow
  /\ quests = initializeQuestLog(resetHour, now).quests
  /\ completions = initializeQuestLog(resetHour, now).completions
  /\ player = initializeQuestLog(resetHour, now).player
  /\ timerState = initializeQuestLog(resetHour, now).timerState
  /\ day = initializeQuestLog(resetHour, now).day
  /\ tasks = <<>>
  /\ nextId = 1
  /\ last = [op |-> "onload", id |-> NULL, res |-> "ok"]
  /\ calc = [NoCalc EXCEPT !.phase = "overlap"]
  /\ done = [q \in QuestIds |-> {}]

NextDialog ==
  \/ \E c \in Categories : CreateQuest(c, DailyChars, 0)
  \/ \E q \in QuestIds : DeleteQuest(q, FALSE)
  \/ \E c \in Categories : \E ids \in ReorderInputs(c) : ReorderQuests(ids, c)
  \/ \E i \in 1..(MaxPending + 1), ok \in BOOLEAN : DeleteContinue(i, ok)
  \/ \E i \in 1..(MaxPending + 1) : SaveDone(i)

SpecDialog == InitDialog /\ [][NextDialog]_vars

\* completion and deletion overlapping: the view is refreshed only when the
\* save of deleteQuest is through
NextStale ==
  \/ \E q \in QuestIds : ~DialogOpen /\ CompleteQuest(q)
  \/ \E i \in 1..(MaxPending + 1) : ~DialogOpen /\ CompleteStale(i)
  \/ \E q \in QuestIds, skipConfirm \in BOOLEAN : ~DialogOpen /\ DeleteQuest(q, skipConfirm)
  \/ \E i \in 1..(MaxPending + 1), ok \in BOOLEAN : DeleteContinue(i, ok)
  \/ \E i \in 1..(MaxPending + 1) : SaveDone(i)
  \/ ClockTick
  \/ ClockHour

SpecStale == InitOverlap /\ [][NextStale]_vars

\* deletion with the timer and completion, one handler at a time
NextDelete ==
  \/ \E q \in QuestIds : ~DialogOpen /\ StartQuest(q)
  \/ \E q \in QuestIds : ~DialogOpen /\ CompleteQuest(q)
  \/ \E q \in QuestIds, skipConfirm \in BOOLEAN : ~DialogOpen /\ DeleteQuest(q, skipConfirm)
  \/ \E i \in 1..MaxPending : StartContinue(i)
  \/ \E i \in 1..MaxPending, ok \in BOOLEAN : DeleteContinue(i, ok)
  \/ \E i \in 1..MaxPending : SaveDone(i)
  \/ ClockTick
  \/ ClockHour

SpecDelete == Init /\ [][NextDelete]_vars

\* the timer machine: the registry, the timer, completion, rollover
NextTimer ==
  \/ \E q \in QuestIds : StartQuest(q)
  \/ \E q \in QuestIds : ResumeQuest(q)
  \/ \E q \in QuestIds : PauseQuest(q)
  \/ \E q \in QuestIds : CompleteQuest(q)
  \/ \E q \in QuestIds : ArchiveQuest(q)
  \/ \E q \in QuestIds : UnarchiveQuest(q)
  \/ RolloverTick
  \/ \E i \in 1..MaxPending : StartContinue(i)
  \/ \E i \in 1..MaxPending : ArchiveContinue(i)
  \/ \E i \in 1..MaxPending : SaveDone(i)
  \/ ClockTick
  \/ ClockHour

SpecTimer == Init /\ [][NextTimer]_vars

\* the active slot: every handler that writes activeQuestId or startTime
NextSlot ==
  \/ \E q \in QuestIds : StartQuest(q)
  \/ \E q \in QuestIds : PauseQuest(q)
  \/ \E q \in QuestIds : CompleteQuest(q)
  \/ \E q \in QuestIds : DeleteQuest(q, TRUE)
  \/ RolloverTick
  \/ \E i \in 1..MaxPending : StartContinue(i)
  \/ \E i \in 1..MaxPending : SaveDone(i)
  \/ ClockTick
  \/ ClockHour

SpecSlot == Init /\ [][NextSlot]_vars

\* the XP ledger: every handler that awards, reverts or leaves the XP alone,
\* without hard delete, import and reset
NextLedger ==
  \/ \E q \in QuestIds : StartQuest(q)
  \/ \E q \in QuestIds : PauseQuest(q)
  \/ \E q \in QuestIds : CompleteQuest(q)
  \/ \E q \in QuestIds : UncompleteQuest(q)
  \/ \E q \in QuestIds : ArchiveQuest(q)
  \/ \E q \in QuestIds : UnarchiveQuest(q)
  \/ RolloverTick
  \/ \E i \in 1..MaxPending : StartContinue(i)
  \/ \E i \in 1..MaxPending : ArchiveContinue(i)
  \/ \E i \in 1..MaxPending : SaveDone(i)
  \/ ClockTick
  \/ ClockHour

SpecLedger == Init /\ [][NextLedger]_vars

\* the completion store: completion and undo under clock and reset-hour changes
NextDone ==
  \/ \E q \in QuestIds : StartQuest(q)
  \/ \E q \in QuestIds : CompleteQuest(q)
  \/ \E q \in QuestIds : UncompleteQuest(q)
  \/ RolloverTick
  \/ \E n \in 0..MaxResetHour : SetResetHour(n)
  \/ \E i \in 1..MaxPending : StartContinue(i)
  \/ \E i \in 1..MaxPending : SetResetHourContinue(i)
  \/ \E i \in 1..MaxPending : SaveDone(i)
  \/ ClockTick
  \/ ClockHour

SpecDone == Init /\ [][NextDone]_vars

(* ------------------------------ life cycle ----------------------------- *)
\* the plugin is loaded: handlers and the rollover interval run
Loaded == last.op # "unload"

\* onunload(): await this.saveQuestLog(), the log written as it stands
Unload ==
  /\ Loaded
  /\ last' = [op |-> "unload", id |-> NULL, res |-> "ok"]
  /\ UNCHANGED <<quests, completions, player, timerState, day, resetHour, now,
                 tasks, nextId, calc, done>>

\* onload() with its onLayoutReady callback: loadQuestLog() reads the log the
\* unload wrote, then ensureDailyRollover(true); the handlers that were
\* suspended when the plugin stopped are gone
Onload ==
  /\ ~Loaded
  /\ IF rolloverDue
     THEN /\ timerState' = NoTimer
          /\ day' = todayStr(resetHour, now)
          /\ tasks' = <<SaveTask("rollover", NULL)>>
     ELSE /\ tasks' = <<>>
          /\ UNCHANGED <<timerState, day>>
  /\ last' = [op |-> "onload", id |-> NULL, res |-> "ok"]
  /\ UNCHANGED <<quests, completions, player, resetHour, now, nextId, calc, done>>

\* the timer across unload and reload
NextLife ==
  \/ Loaded /\ \E q \in QuestIds : StartQuest(q)
  \/ Loaded /\ \E q \in QuestIds : PauseQuest(q)
  \/ Loaded /\ RolloverTick
  \/ Loaded /\ \E i \in 1..MaxPending : StartContinue(i)
  \/ Loaded /\ \E i \in 1..MaxPending : SaveDone(i)
  \/ Unload
  \/ Onload
  \/ ClockTick
  \/ ClockHour

SpecLife == Init /\ [][NextLife]_vars

(* ------------------------- the ledger on its own ------------------------ *)
MaxStartLevel == 3      \* levels the ledger runs start from
StartXps == {0, 50, 99, 100, 282}
AwardInputs == {0, 10, 30, 45, 100, 150, 400}
EstimateArgs == {NoEstimate, 0, 30}
ActualArgs ==
  {m * TicksPerMinute : m \in {0, 10, 45}} \cup {30 * TicksPerMinute + 1, 45 * TicksPerMinute - 1}

\* the player states the ledger keeps: xp below the threshold of the level
StartPlayers ==
  {p \in [level : 1..MaxStartLevel, xp : StartXps] : p.xp < getXPForNextLevel(p.level)}

InitXP ==
  /\ resetHour = DefaultResetHour
  /\ now = StartNow
  /\ quests = LoadedQuests
  /\ completions = <<>>
  /\ player \in StartPlayers
  /\ timerState = NoTimer
  /\ day = todayStr(resetHour, now)
  /\ tasks = <<>>
  /\ nextId = Len(LoadedQuests) + 1
  /\ last = [op |-> "onload", id |-> NULL, res |-> "ok"]
  /\ calc = NoCalc
  /\ done = [q \in QuestIds |-> {}]

\* awardXP(x) on the player
XAward(x) ==
  /\ calc.phase = "none"
  /\ player' = awardXP(player, x)
  /\ calc' = [calc EXCEPT !.phase = "awarded", !.p0 = player, !.x = x,
                          !.p1 = awardXP(player, x)]
  /\ UNCHANGED <<quests, completions, timerState, day, resetHour, now, tasks,
                 nextId, last, done>>

\* the revert of uncompleteQuest for a completion that earned the x just awarded
XRevert ==
  /\ calc.phase = "awarded"
  /\ player' = revertXP(player, calc.x)
  /\ calc' = [calc EXCEPT !.phase = "reverted"]
  /\ UNCHANGED <<quests, completions, timerState, day, resetHour, now, tasks,
                 nextId, last, done>>

\* calculateXP(est, act)
XCalc(est, act) ==
  /\ calc.phase = "none"
  /\ calc' = [calc EXCEPT !.phase = "calc", !.est = est, !.act = act,
                          !.xp = calculateXP(est, act)]
  /\ UNCHANGED <<quests, completions, player, timerState, day, resetHour, now,
                 tasks, nextId, last, done>>

NextXP ==
  \/ \E x \in AwardInputs : XAward(x)
  \/ XRevert
  \/ \E est \in EstimateArgs, act \in ActualArgs : XCalc(est, act)

SpecXP == InitXP /\ [][NextXP]_vars

(* ------------------------- the dates on their own ----------------------- *)
DateDays == 2           \* calendar days the instants are drawn from

\* the instants read: on each day, in each hour, the full hour, the last full
\* minute and the last tick
DateInstants ==
  {d * TicksPerDay + h * TicksPerHour + o :
     d \in 1..DateDays, h \in 0..(HoursPerDay - 1),
     o \in {0, TicksPerHour - TicksPerMinute, TicksPerHour - 1}}

InitDate ==
  /\ resetHour \in 0..(HoursPerDay - 1)
  /\ now \in DateInstants
  /\ quests = LoadedQuests
  /\ completions = <<>>
  /\ player = [level |-> 1, xp |-> 0]
  /\ timerState = NoTimer
  /\ day = todayStr(resetHour, now)
  /\ tasks = <<>>
  /\ nextId = Len(LoadedQuests) + 1
  /\ last = [op |-> "onload", id |-> NULL, res |-> "ok"]
  /\ calc = NoCalc
  /\ done = [q \in QuestIds |-> {}]

\* todayStr(dailyResetHour) and getLogicalToday(dailyResetHour) read now
XToday ==
  /\ calc.phase = "none"
  /\ calc' = [phase |-> "today", today |-> todayStr(resetHour, now),
              noon |-> getLogicalToday(resetHour, now)]
  /\ UNCHANGED <<quests, completions, player, timerState, day, resetHour, now,
                 tasks, nextId, last, done>>

NextDate == XToday

SpecDate == InitDate /\ [][NextDate]_vars

(* ----------------------- the schedules on their own --------------------- *)
MaxTokens == 2          \* tokens in a schedule typed in

\* String.prototype.toUpperCase(), for the inputs typed in capitals
toUpperCase(s) ==
  [i \in DOMAIN s |->
     IF \E j \in DOMAIN LowerCaseLetters : LowerCaseLetters[j] = s[i]
     THEN UpperCaseLetters[CHOOSE j \in DOMAIN LowerCaseLetters : LowerCaseLetters[j] = s[i]]
     ELSE s[i]]

\* the full day names, in the order of DAY_KEYS
DayNames ==
  <<<<"s", "u", "n", "d", "a", "y">>,
    <<"m", "o", "n", "d", "a", "y">>,
    <<"t", "u", "e", "s", "d", "a", "y">>,
    <<"w", "e", "d", "n", "e", "s", "d", "a", "y">>,
    <<"t", "h", "u", "r", "s", "d", "a", "y">>,
    <<"f", "r", "i", "d", "a", "y">>,
    <<"s", "a", "t", "u", "r", "d", "a", "y">>>>

\* A token typed in: its text, and what it is meant as (a day a, a range from
\* a to b, a keyword a, or nothing the parser knows).
Token(kind, a, b, text) == [kind |-> kind, a |-> a, b |-> b, text |-> text]

KeywordTokens ==
  {Token("keyword", "empty", "empty", <<>>),
   Token("keyword", "daily", "daily", <<"d", "a", "i", "l", "y">>),
   Token("keyword", "all", "all", <<"a", "l", "l">>),
   Token("keyword", "everyday", "everyday", <<"e", "v", "e", "r", "y", "d", "a", "y">>),
   Token("keyword", "weekdays", "weekdays", <<"w", "e", "e", "k", "d", "a", "y", "s">>),
   Token("keyword", "weekends", "weekends", <<"w", "e", "e", "k", "e", "n", "d", "s">>)}

DayTokens ==
  {Token("day", DAY_KEYS[i], DAY_KEYS[i], DAY_CHARS[i]) : i \in 1..DaysPerWeek}
    \cup {Token("day", DAY_KEYS[i], DAY_KEYS[i], DayNames[i]) : i \in 1..DaysPerWeek}

RangeTokens ==
  {Token("range", DAY_KEYS[i], DAY_KEYS[j], DAY_CHARS[i] \o <<"-">> \o DAY_CHARS[j]) :
     i \in 1..DaysPerWeek, j \in 1..DaysPerWeek}
    \cup {Token("range", "mon", "fri", DayNames[2] \o <<"-">> \o DayNames[6])}

UnknownTokens ==
  {Token("unknown", "null", "null", <<"x", "y", "z">>),
   Token("unknown", "null", "null", <<"f", "o", "o", "-", "b", "a", "r">>),
   Token("unknown", "null", "null", <<"m", "o", "n", "-", "x", "y", "z">>)}

\* the tokens that follow the first one
MoreTokens ==
  UnknownTokens
    \cup {t \in DayTokens : t.a \in {"sun", "wed"} /\ Len(t.text) = 3}
    \cup {t \in RangeTokens : t.a = "fri" /\ t.b \in {"mon", "sat"}}

Separators == {<<",">>, <<" ">>, <<",", " ">>}

\* how a schedule is typed: as it is, in capitals, or with blanks around it
Typed(how, text) ==
  IF how = "capitals" THEN toUpperCase(text)
  ELSE IF how = "padded" THEN <<" ">> \o text \o <<"\t", " ">>
  ELSE text

Hows == {"plain", "capitals", "padded"}

RECURSIVE Join(_, _)
\* the texts of the tokens with sep between them
Join(toks, sep) ==
  IF Len(toks) = 1 THEN toks[1].text
  ELSE toks[1].text \o sep \o Join(Tail(toks), sep)

\* one token typed in every way; two tokens and more, no keyword among them,
\* typed as they are
ScheduleInputs ==
  {[phase |-> "schedule", toks |-> <<t>>, raw |-> Typed(how, t.text)] :
     t \in KeywordTokens \cup DayTokens \cup RangeTokens \cup UnknownTokens, how \in Hows}
    \cup UNION {{[phase |-> "schedule", toks |-> <<t>> \o more,
                  raw |-> Join(<<t>> \o more, sep)] :
                   t \in DayTokens \cup RangeTokens \cup UnknownTokens,
                   more \in [1..(n - 1) -> MoreTokens], sep \in Separators} :
                n \in 2..MaxTokens}

InitSched ==
  /\ resetHour = DefaultResetHour
  /\ now = StartNow
  /\ quests = LoadedQuests
  /\ completions = <<>>
  /\ player = [level |-> 1, xp |-> 0]
  /\ timerState = NoTimer
  /\ day = todayStr(resetHour, now)
  /\ tasks = <<>>
  /\ nextId = Len(LoadedQuests) + 1
  /\ last = [op |-> "onload", id |-> NULL, res |-> "ok"]
  /\ calc \in ScheduleInputs
  /\ done = [q \in QuestIds |-> {}]

\* isScheduledOnDate(raw, date) for a date whose getDay() is getDay, with the
\* day set parseSchedule(raw) gives
XScheduled(getDay) ==
  /\ calc.phase = "schedule"
  /\ calc' = [phase |-> "scheduled", toks |-> calc.toks, raw |-> calc.raw,
              getDay |-> getDay, due |-> isScheduledOnDate(calc.raw, getDay),
              days |-> parseSchedule(calc.raw).days]
  /\ UNCHANGED <<quests, completions, player, timerState, day, resetHour, now,
                 tasks, nextId, last, done>>

NextSched == \E getDay \in 0..(DaysPerWeek - 1) : XScheduled(getDay)

SpecSched == InitSched /\ [][NextSched]_vars

(* ----------------------------- the day picker -------------------------- *)
MON_FIRST_ORDER == <<"mon", "tue", "wed", "thu", "fri", "sat", "sun">>
WeekdaysChars == <<"w", "e", "e", "k", "d", "a", "y", "s">>

\* new Set(parseSchedule(schedule).days)
parseSelectedDaysFromSchedule(schedule) == parseSchedule(schedule).days

RECURSIVE join(_)
\* keys.join(','), as characters
join(keys) ==
  IF keys = <<>> THEN <<>>
  ELSE IF Len(keys) = 1 THEN DAY_CHARS[DAY_INDEX(keys[1]) + 1]
  ELSE DAY_CHARS[DAY_INDEX(keys[1]) + 1] \o <<",">> \o join(Tail(keys))

\* selectedDaysToSchedule telling the keywords by the size of the set alone
selectedDaysToSchedule_bySize(selectedDays) ==
  IF Cardinality(selectedDays) = DaysPerWeek THEN DailyChars
  ELSE IF Cardinality(selectedDays) = Cardinality(WEEKDAYS) THEN WeekdaysChars
  ELSE IF Cardinality(selectedDays) = Cardinality(WEEKENDS) THEN WeekendsChars
  ELSE join(SelectSeq(MON_FIRST_ORDER, LAMBDA k : k \in selectedDays))

\* selectedDaysToSchedule(selectedDays): the sort by MON_FIRST_ORDER of a set
\* is the subsequence of MON_FIRST_ORDER it selects
selectedDaysToSchedule(selectedDays) ==
  IF Cardinality(selectedDays) = DaysPerWeek THEN DailyChars
  ELSE IF selectedDays = WEEKDAYS THEN WeekdaysChars
  ELSE IF selectedDays = WEEKENDS THEN WeekendsChars
  ELSE join(SelectSeq(MON_FIRST_ORDER, LAMBDA k : k \in selectedDays))

\* the sets the day picker can hold when saveInlineEdit goes on: the non-empty
\* sets of day keys
PickerInputs == SUBSET {DAY_KEYS[i] : i \in 1..DaysPerWeek} \ {{}}

InitPicker ==
  /\ resetHour = DefaultResetHour
  /\ now = StartNow
  /\ quests = LoadedQuests
  /\ completions = <<>>
  /\ player = [level |-> 1, xp |-> 0]
  /\ timerState = NoTimer
  /\ day = todayStr(resetHour, now)
  /\ tasks = <<>>
  /\ nextId = Len(LoadedQuests) + 1
  /\ last = [op |-> "onload", id |-> NULL, res |-> "ok"]
  /\ calc \in {[phase |-> "picked", selectedDays |-> S, schedule |-> <<>>, days |-> {}] :
               S \in PickerInputs}
  /\ done = [q \in QuestIds |-> {}]

\* saveInlineEdit writing the schedule of the picked days, and openInlineEdit
\* reading it back
XSavePicked ==
  /\ calc.phase = "picked"
  /\ calc' = [phase |-> "saved", selectedDays |-> calc.selectedDays,
              schedule |-> selectedDaysToSchedule(calc.selectedDays),
              days |-> parseSelectedDaysFromSchedule(
                         selectedDaysToSchedule(calc.selectedDays))]
  /\ UNCHANGED <<quests, completions, player, timerState, day, resetHour, now,
                 tasks, nextId, last, done>>

NextPicker == XSavePicked

SpecPicker == InitPicker /\ [][NextPicker]_vars

\* the reset of all data beside the timer and completion
NextReset ==
  \/ \E q \in QuestIds : ~DialogOpen /\ StartQuest(q)
  \/ \E q \in QuestIds : ~DialogOpen /\ CompleteQuest(q)
  \/ ~DialogOpen /\ ResetAllData
  \/ \E i \in 1..MaxPending, ok \in BOOLEAN : ResetContinue(i, ok)
  \/ \E i \in 1..MaxPending : StartContinue(i)
  \/ \E i \in 1..MaxPending : SaveDone(i)
  \/ ClockTick
  \/ ClockHour

SpecReset == Init /\ [][NextReset]_vars

\* Date.now() goes back: the wall clock is set back by the user or by a time
\* synchronisation, here by one of the steps it advances in
ClockBack ==
  /\ calc.phase = "clock"
  /\ calc.backs < MaxClockBacks
  /\ now > StartNow
  /\ now' = IF now % TicksPerHour = 0 THEN now - 1 ELSE now - (TicksPerHour - 1)
  /\ calc' = [calc EXCEPT !.backs = @ + 1]
  /\ UNCHANGED <<quests, completions, player, timerState, day, resetHour, tasks,
                 nextId, last, done>>

\* the loaded log, the times the clock has been set back counted in calc
InitClock ==
  /\ resetHour = DefaultResetHour
  /\ now = StartNow
  /\ quests = LoadedQuests
  /\ completions = initializeQuestLog(resetHour, now).completions
  /\ player = initializeQuestLog(resetHour, now).player
  /\ timerState = initializeQuestLog(resetHour, now).timerState
  /\ day = initializeQuestLog(resetHour, now).day
  /\ tasks = <<>>
  /\ nextId = Len(LoadedQuests) + 1
  /\ last = [op |-> "onload", id |-> NULL, res |-> "ok"]
  /\ calc = [phase |-> "clock", backs |-> 0]
  /\ done = [q \in QuestIds |-> {}]

\* the timer under a wall clock that goes both ways
NextClock ==
  \/ \E q \in QuestIds : StartQuest(q)
  \/ \E q \in QuestIds : PauseQuest(q)
  \/ \E i \in 1..MaxPending : StartContinue(i)
  \/ \E i \in 1..MaxPending : SaveDone(i)
  \/ ClockTick
  \/ ClockHour
  \/ ClockBack

SpecClock == InitClock /\ [][NextClock]_vars

\* the periodic tick beside the timer: setInterval fires the tick again and
\* again whatever else is pending, and every save and every awaited pause
\* comes back
NextTick ==
  \/ \E q \in QuestIds : StartQuest(q)
  \/ \E q \in QuestIds : PauseQuest(q)
  \/ RolloverTick
  \/ \E i \in 1..MaxPending : StartContinue(i)
  \/ \E i \in 1..MaxPending : SaveDone(i)
  \/ ClockTick
  \/ ClockHour

SpecTick ==
  /\ Init /\ [][NextTick]_vars
  /\ SF_vars(RolloverTick)
  /\ WF_vars(\E i \in 1..MaxPending : StartContinue(i))
  /\ WF_vars(\E i \in 1..MaxPending : SaveDone(i))

(* ------------------------------ loading -------------------------------- *)
\* What the log file holds, by shape. A part of a record is "array" (quests,
\* completions: an array), "full" (player, timerState: an object with every
\* field), "partial" (an object lacking a field, {} for one), "other" (a value
\* that is no array) or "absent" (undefined or null).
ArrayShapes == {"array", "other", "absent"}
ObjectShapes == {"full", "partial", "absent"}
Truthy(shape) == shape # "absent"

\* initializeQuestLog(), by shape
DefaultLog ==
  [quests |-> "array", completions |-> "array", player |-> "full", timerState |-> "full"]

\* the stored contents: no file, text that JSON.parse rejects, the text null,
\* or a record with each part in each shape
StoredInputs ==
  {[file |-> f, rec |-> DefaultLog] : f \in {"missing", "corrupt", "null"}}
    \cup {[file |-> "record",
           rec |-> [quests |-> q, completions |-> c, player |-> p, timerState |-> t]] :
          q \in ArrayShapes, c \in ArrayShapes, p \in ObjectShapes, t \in ObjectShapes}

\* parsed && Array.isArray(parsed.quests) && parsed.player && parsed.timerState
validRecord(stored) ==
  /\ stored.file = "record"
  /\ stored.rec.quests = "array"
  /\ Truthy(stored.rec.player)
  /\ Truthy(stored.rec.timerState)

\* loadQuestLog() with questLog the log in memory before it (onload has set
\* it to the fresh log): the log in memory after it
loadQuestLog(questLog, stored) ==
  LET adopted == IF validRecord(stored) THEN stored.rec ELSE questLog
  IN IF ~Truthy(adopted.quests) THEN DefaultLog ELSE adopted

InitLoad ==
  /\ resetHour = DefaultResetHour
  /\ now = StartNow
  /\ quests = initializeQuestLog(resetHour, now).quests
  /\ completions = initializeQuestLog(resetHour, now).completions
  /\ player = initializeQuestLog(resetHour, now).player
  /\ timerState = initializeQuestLog(resetHour, now).timerState
  /\ day = initializeQuestLog(resetHour, now).day
  /\ tasks = <<>>
  /\ nextId = 1
  /\ last = [op |-> "onload", id |-> NULL, res |-> "ok"]
  /\ calc \in {[phase |-> "stored", stored |-> st, log |-> DefaultLog] : st \in StoredInputs}
  /\ done = [q \in QuestIds |-> {}]

\* await this.loadQuestLog() in onLayoutReady
XLoad ==
  /\ calc.phase = "stored"
  /\ calc' = [calc EXCEPT !.phase = "loaded", !.log = loadQuestLog(calc.log, calc.stored)]
  /\ UNCHANGED <<quests, completions, player, timerState, day, resetHour, now,
                 tasks, nextId, last, done>>

NextLoad == XLoad

SpecLoad == InitLoad /\ [][NextLoad]_vars

(* ------------------------------ import --------------------------------- *)
\* the text handed to importData: text that JSON.parse rejects, the text null,
\* or a record with each part in each shape
ImportInputs == {st \in StoredInputs : st.file # "missing"}

\* the tests of importData before its dialog: does the text pass them
importAccepted(imported) ==
  /\ imported.file = "record"
  /\ imported.rec.quests = "array"
  /\ imported.rec.completions = "array"

InitImport ==
  /\ resetHour = DefaultResetHour
  /\ now = StartNow
  /\ quests = initializeQuestLog(resetHour, now).quests
  /\ completions = initializeQuestLog(resetHour, now).completions
  /\ player = initializeQuestLog(resetHour, now).player
  /\ timerState = initializeQuestLog(resetHour, now).timerState
  /\ day = initializeQuestLog(resetHour, now).day
  /\ tasks = <<>>
  /\ nextId = 1
  /\ last = [op |-> "onload", id |-> NULL, res |-> "ok"]
  /\ calc \in {[phase |-> "import", stored |-> st, log |-> DefaultLog] : st \in ImportInputs}
  /\ done = [q \in QuestIds |-> {}]

\* importData(jsonContent) up to its dialog: a throw is caught and reported
ImportData ==
  /\ calc.phase = "import"
  /\ calc' = [calc EXCEPT !.phase = IF importAccepted(calc.stored) THEN "asking" ELSE "failed"]
  /\ last' = [op |-> "import", id |-> NULL,
              res |-> IF importAccepted(calc.stored) THEN "asking" ELSE "failed"]
  /\ UNCHANGED <<quests, completions, player, timerState, day, resetHour, now,
                 tasks, nextId, done>>

\* importData from the answer of the dialog on: this.questLog = imported
ImportContinue(ok) ==
  /\ calc.phase = "asking"
  /\ calc' = [calc EXCEPT !.phase = IF ok THEN "imported" ELSE "declined",
                          !.log = IF ok THEN calc.stored.rec ELSE @]
  /\ last' = [op |-> "import", id |-> NULL, res |-> IF ok THEN "ok" ELSE "declined"]
  /\ UNCHANGED <<quests, completions, player, timerState, day, resetHour, now,
                 tasks, nextId, done>>

NextImport ==
  \/ ImportData
  \/ \E ok \in BOOLEAN : ImportContinue(ok)

SpecImport == InitImport /\ [][NextImport]_vars

(* ------------------------------ commit --------------------------------- *)
\* The log as the set of the mutations made to it, numbered 1, 2, ...; calc
\* holds the log in memory (mem), the file (disk), what the view shows (view),
\* the commits under way (saves) and, for the record, the snapshots written
\* (saved) and the mutations whose commit refreshed the view (refreshed) or
\* threw (failed).
MaxMutations == 3
Mutations == 1..MaxMutations

InitCommit ==
  /\ resetHour = DefaultResetHour
  /\ now = StartNow
  /\ quests = LoadedQuests
  /\ completions = initializeQuestLog(resetHour, now).completions
  /\ player = initializeQuestLog(resetHour, now).player
  /\ timerState = initializeQuestLog(resetHour, now).timerState
  /\ day = initializeQuestLog(resetHour, now).day
  /\ tasks = <<>>
  /\ nextId = Len(LoadedQuests) + 1
  /\ last = [op |-> "onload", id |-> NULL, res |-> "ok"]
  /\ calc = [phase |-> "commit", mem |-> {}, disk |-> {}, view |-> {}, saves |-> <<>>,
             saved |-> {}, refreshed |-> {}, failed |-> {}]
  /\ done = [q \in QuestIds |-> {}]

\* a handler changes the log in memory and calls commit(): saveQuestLog() up
\* to its first await, which is ensureFolder when the path names a folder and
\* the write of JSON.stringify(this.questLog) when it names none
MutateCommit(folder) ==
  /\ calc.phase = "commit"
  /\ Cardinality(calc.mem) < MaxMutations
  /\ Len(calc.saves) < MaxPending + 1
  /\ LET m == Cardinality(calc.mem) + 1
         mem == calc.mem \cup {m}
     IN calc' = [calc EXCEPT
                   !.mem = mem,
                   !.saves = Append(@, [mutation |-> m,
                                        stage |-> IF folder THEN "folder" ELSE "write",
                                        content |-> IF folder THEN {} ELSE mem])]
  /\ UNCHANGED <<quests, completions, player, timerState, day, resetHour, now,
                 tasks, nextId, last, done>>

\* saveQuestLog() after ensureFolder: the whole log is serialised as it is now
EnsureFolderDone(i) ==
  /\ calc.phase = "commit"
  /\ i \in DOMAIN calc.saves
  /\ calc.saves[i].stage = "folder"
  /\ calc' = [calc EXCEPT !.saves[i].stage = "write", !.saves[i].content = calc.mem]
  /\ UNCHANGED <<quests, completions, player, timerState, day, resetHour, now,
                 tasks, nextId, last, done>>

\* commit() refreshing the view although its save threw
SaveFail_refresh(i) ==
  /\ calc.phase = "commit"
  /\ i \in DOMAIN calc.saves
  /\ calc' = [calc EXCEPT !.saves = RemoveAt(@, i),
                          !.view = calc.mem,
                          !.refreshed = @ \cup {calc.saves[i].mutation},
                          !.failed = @ \cup {calc.saves[i].mutation}]
  /\ UNCHANGED <<quests, completions, player, timerState, day, resetHour, now,
                 tasks, nextId, last, done>>

\* ensureFolder or the write throws: saveQuestLog() and commit() reject, the
\* rest of commit() is not run
SaveFail(i) ==
  /\ calc.phase = "commit"
  /\ i \in DOMAIN calc.saves
  /\ calc' = [calc EXCEPT !.saves = RemoveAt(@, i),
                          !.failed = @ \cup {calc.saves[i].mutation}]
  /\ UNCHANGED <<quests, completions, player, timerState, day, resetHour, now,
                 tasks, nextId, last, done>>

\* the write is through: commit() goes on to refreshView(), which renders the
\* log in memory
WriteDone(i) ==
  /\ calc.phase = "commit"
  /\ i \in DOMAIN calc.saves
  /\ calc.saves[i].stage = "write"
  /\ calc' = [calc EXCEPT !.saves = RemoveAt(@, i),
                          !.disk = calc.saves[i].content,
                          !.saved = @ \cup {calc.saves[i].content},
                          !.view = calc.mem,
                          !.refreshed = @ \cup {calc.saves[i].mutation}]
  /\ UNCHANGED <<quests, completions, player, timerState, day, resetHour, now,
                 tasks, nextId, last, done>>

NextCommit ==
  \/ \E folder \in BOOLEAN : MutateCommit(folder)
  \/ \E i \in 1..(MaxPending + 1) : EnsureFolderDone(i)
  \/ \E i \in 1..(MaxPending + 1) : WriteDone(i)
  \/ \E i \in 1..(MaxPending + 1) : SaveFail(i)

SpecCommit == InitCommit /\ [][NextCommit]_vars

(* ================================ claims ================================ *)
\* the logical today at the current instant
Today == todayStr(resetHour, now)

\* the completion records of quest q dated d
RecordsOf(q, d) ==
  {i \in DOMAIN completions : completions[i].questId = q /\ completions[i].date = d}

RECURSIVE SumNeed(_)
\* the XP consumed by the level-ups from level 1 to the given level
SumNeed(level) ==
  IF level <= 1 THEN 0 ELSE getXPForNextLevel(level - 1) + SumNeed(level - 1)

\* all the XP a player state stands for
CumXP(p) == SumNeed(p.level) + p.xp

\* C2: the completions list never holds two records with the same questId
\* and the same date.
C2_OneCompletionPerDay ==
  \A i, j \in DOMAIN completions :
    (completions[i].questId = completions[j].questId
       /\ completions[i].date = completions[j].date) => i = j

\* a quest completed on two logical days, under a changed reset hour
C2_Witness ==
  /\ resetHour # DefaultResetHour
  /\ \E i, j \in DOMAIN completions :
       /\ completions[i].questId = completions[j].questId
       /\ completions[i].date # completions[j].date

\* C3: completeQuest(q) called when q was already completed on the current
\* logical day and not uncompleted since changes neither the completions nor
\* the player nor the timer state (nor anything else of the log, and starts
\* no save); every such day has exactly one completion record of q.
C3_SecondCompleteIsNoOp ==
  /\ [](\A q \in QuestIds : \A d \in done[q] : Cardinality(RecordsOf(q, d)) = 1)
  /\ [][\A q \in QuestIds :
          (CompleteQuest(q) /\ Today \in done[q])
            => UNCHANGED <<quests, completions, player, timerState, day, tasks>>]_vars

\* the second call has returned while the first call still awaits its save
C3_Witness ==
  /\ last.op = "complete" /\ last.res = "completed"
  /\ Today \in done[last.id]
  /\ \E i \in DOMAIN tasks :
       tasks[i].op = "complete" /\ tasks[i].id = last.id /\ tasks[i].pc = "save"
  /\ timerState.activeQuestId # NULL

\* C4: the player's level is at least 1 and the xp is at least 0 and below
\* the threshold of the level, in every reachable state.
C4_PlayerNormalised ==
  /\ player.level >= 1
  /\ 0 <= player.xp
  /\ player.xp < getXPForNextLevel(player.level)

\* an undo of the long quest that took the player back down to level 1
C4_Witness ==
  /\ last = [op |-> "uncomplete", id |-> 2, res |-> "ok"]
  /\ player.level = 1
  /\ player.xp > 0
  /\ player.xp + LongEstimate >= getXPForNextLevel(1)

\* C5: awarding x and then reverting x gives back the starting level and xp,
\* unless the revert ended in the level-1 floor clamp.
C5_RevertUndoesAward ==
  (calc.phase = "reverted" /\ ~floorClampEngaged(calc.p1, calc.x)) => player = calc.p0

\* a revert that came back down two levels or more
C5_Witness ==
  /\ calc.phase = "reverted"
  /\ calc.p1.level >= calc.p0.level + 2
  /\ calc.p0.xp > 0
  /\ ~floorClampEngaged(calc.p1, calc.x)

\* C6: an award ends with the xp below the threshold of the level reached,
\* having consumed the threshold of every level it passed; the thresholds of
\* levels 1 and 2 are 100 and 283, 150 from (1, 0) gives (2, 50) and 400 from
\* (1, 0) gives (3, 17).
C6_AwardLoops ==
  /\ getXPForNextLevel(1) = 100 /\ getXPForNextLevel(2) = 283
  /\ calc.phase = "awarded" =>
       /\ player.level >= calc.p0.level
       /\ player.xp >= 0 /\ player.xp < getXPForNextLevel(player.level)
       /\ CumXP(player) = CumXP(calc.p0) + calc.x
       /\ (calc.p0 = [level |-> 1, xp |-> 0] /\ calc.x = 150)
            => player = [level |-> 2, xp |-> 50]
       /\ (calc.p0 = [level |-> 1, xp |-> 0] /\ calc.x = 400)
            => player = [level |-> 3, xp |-> 17]

\* 400 awarded from (1, 0): two level-ups in one award
C6_Witness ==
  /\ calc.phase = "awarded"
  /\ calc.p0 = [level |-> 1, xp |-> 0] /\ calc.x = 400
  /\ player.level = 3

\* C7: with a positive estimate calculateXP is max(estimate, actual) *
\* xpPerMinute rounded to the nearest integer (halves up), never below
\* estimate * xpPerMinute; with no estimate or 0 it is flatXp; (30, 45)
\* gives 45, (30, 10) gives 30, no estimate gives 10.
C7_EstimateRule ==
  calc.phase = "calc" =>
    LET longer == Max(calc.est * TicksPerMinute, calc.act) * xpPerMinute
    IN /\ calc.est > 0 =>
            /\ 2 * TicksPerMinute * calc.xp - TicksPerMinute <= 2 * longer
            /\ 2 * longer < 2 * TicksPerMinute * calc.xp + TicksPerMinute
            /\ calc.xp >= calc.est * xpPerMinute
       /\ calc.est \in {NoEstimate, 0} => calc.xp = flatXp
       /\ (calc.est = 30 /\ calc.act = 45 * TicksPerMinute) => calc.xp = 45
       /\ (calc.est = 30 /\ calc.act = 10 * TicksPerMinute) => calc.xp = 30
       /\ calc.est = NoEstimate => calc.xp = 10

\* the estimate 30 with 10 minutes spent: the estimate is what counts
C7_Witness ==
  /\ calc.phase = "calc"
  /\ calc.est = 30 /\ calc.act = 10 * TicksPerMinute
  /\ calc.xp = 30

\* quest q is in the list and archived
IsArchived(q) == \E i \in DOMAIN quests : quests[i].id = q /\ quests[i].archived

\* C8: startQuest(q) and resumeQuest(q) on a quest that is archived or has a
\* completion dated the logical today leave quests, completions, player,
\* timerState and day as they were (and start no save).
C8_RefusedStartChangesNothing ==
  [][\A q \in QuestIds :
       ((StartQuest(q) \/ ResumeQuest(q)) /\ (IsArchived(q) \/ RecordsOf(q, Today) # {}))
         => UNCHANGED <<quests, completions, player, timerState, day, tasks>>]_vars

\* a start or resume refused while another quest is running
C8_Witness ==
  /\ last.op \in {"start", "resume"}
  /\ last.res \in {"archived", "completed"}
  /\ timerState.activeQuestId # NULL
  /\ timerState.activeQuestId # last.id
  /\ timerState.startTime < now

\* C9: startQuest(B) while another quest A is running banks A's total time in
\* pausedSessions[A] and clears the active slot in the call itself; when the
\* call goes on and makes B the active quest (no other handler having touched
\* the timer state meanwhile), A is not active and getTotalMinutes(A) is what
\* it was just before the call.
C9_ImplicitPauseKeepsTime ==
  [][/\ \A b \in QuestIds :
          LET a == timerState.activeQuestId
          IN ((StartQuest(b) \/ ResumeQuest(b))
                /\ startRefused(b) = "no" /\ a # NULL /\ a # b)
               => /\ timerState'.activeQuestId = NULL
                  /\ pausedOf(timerState', a) = getTotalMinutes(timerState, a)
                  /\ getTotalMinutes(timerState', a) = getTotalMinutes(timerState, a)
     /\ \A i \in DOMAIN tasks :
          (StartContinue(i) /\ tasks[i].alone)
            => /\ timerState'.activeQuestId = tasks[i].id
               /\ timerState'.activeQuestId # tasks[i].other
               /\ getTotalMinutes(timerState', tasks[i].other) = tasks[i].prevTotal]_vars

\* B runs, and A's bucket holds the time A had when startQuest(B) was called
C9_Witness ==
  \E i \in DOMAIN tasks :
    /\ tasks[i].op \in {"start", "resume"} /\ tasks[i].pc = "save"
    /\ tasks[i].other # NULL /\ tasks[i].alone
    /\ tasks[i].prevTotal > 0
    /\ timerState.activeQuestId = tasks[i].id
    /\ pausedOf(timerState, tasks[i].other) = tasks[i].prevTotal

\* C10: pauseQuest(q) on a quest that is not the active one changes nothing
\* of the log and starts no save; on the active quest it adds the time
\* elapsed since startTime to pausedSessions[q], clears activeQuestId and
\* startTime and leaves every other quest's entry as it was.
C10_PauseFrame ==
  [][\A q \in QuestIds :
       PauseQuest(q) =>
         IF timerState.activeQuestId # q
         THEN UNCHANGED <<quests, completions, player, timerState, day, tasks>>
         ELSE /\ pausedOf(timerState', q)
                   = pausedOf(timerState, q) + (now - timerState.startTime)
              /\ timerState'.activeQuestId = NULL
              /\ timerState'.startTime = NULL
              /\ \A r \in QuestIds \ {q} :
                   /\ (r \in DOMAIN timerState'.pausedSessions)
                        <=> (r \in DOMAIN timerState.pausedSessions)
                   /\ pausedOf(timerState', r) = pausedOf(timerState, r)
              /\ UNCHANGED <<quests, completions, player, day>>]_vars

\* a pause that added elapsed time to a bucket that already held some
C10_Witness ==
  /\ last.op = "pause" /\ last.res = "ok"
  /\ timerState.activeQuestId = NULL /\ timerState.startTime = NULL
  /\ pausedOf(timerState, last.id) >= TicksPerHour
  /\ \E r \in QuestIds \ {last.id} : pausedOf(timerState, r) > 0

\* the ticks a quest has on the clock: its banked bucket, and the time since
\* startTime when it is the running quest
TrackedTicks(q) ==
  pausedOf(timerState, q)
    + (IF timerState.activeQuestId = q THEN now - timerState.startTime ELSE 0)

\* m is n / d rounded to the nearest integer, halves up
IsRounded(m, n, d) == 2 * d * m - d <= 2 * n /\ 2 * n < 2 * d * m + d

\* C11: completeQuest(q) on a quest that is neither archived nor completed on
\* the logical today appends one completion record (q, today) whose
\* minutesSpent is the rounded total of q's banked and live time and whose
\* xpEarned is the XP the player gained; afterwards q is not the active quest
\* and has no pausedSessions entry, and the active slot (unless it was q's)
\* and every other quest's bucket are as before.
C11_CompleteRecordsAndClears ==
  [][\A q \in QuestIds :
       (CompleteQuest(q) /\ ~IsArchived(q) /\ RecordsOf(q, Today) = {})
         => /\ Len(completions') = Len(completions) + 1
            /\ SubSeq(completions', 1, Len(completions)) = completions
            /\ LET c == completions'[Len(completions')]
               IN /\ c.questId = q /\ c.date = Today
                  /\ IsRounded(c.minutesSpent, TrackedTicks(q), TicksPerMinute)
                  /\ c.xpEarned = CumXP(player') - CumXP(player)
            /\ timerState'.activeQuestId # q
            /\ q \notin DOMAIN timerState'.pausedSessions
            /\ timerState.activeQuestId # q =>
                 /\ timerState'.activeQuestId = timerState.activeQuestId
                 /\ timerState'.startTime = timerState.startTime
            /\ \A r \in QuestIds \ {q} :
                 /\ (r \in DOMAIN timerState'.pausedSessions)
                      <=> (r \in DOMAIN timerState.pausedSessions)
                 /\ pausedOf(timerState', r) = pausedOf(timerState, r)]_vars

\* a quest completed with about an hour on its clock while another quest
\* keeps its banked time
C11_Witness ==
  /\ last.op = "complete" /\ last.res = "ok"
  /\ completions # <<>>
  /\ completions[Len(completions)].questId = last.id
  /\ completions[Len(completions)].minutesSpent >= 59
  /\ timerState.activeQuestId = NULL
  /\ last.id \notin DOMAIN timerState.pausedSessions
  /\ \E r \in QuestIds \ {last.id} : pausedOf(timerState, r) > 0

\* C12: uncompleteQuest(q) with a completion (q, today) removes that one
\* record from the list, takes exactly its xpEarned from the player's total
\* and leaves the timer state, the quests and every other completion as they
\* were; with no such completion it changes nothing of the log and starts
\* no save.
C12_UncompleteFrame ==
  [][\A q \in QuestIds :
       UncompleteQuest(q) =>
         IF RecordsOf(q, Today) = {}
         THEN UNCHANGED <<quests, completions, player, timerState, day, tasks>>
         ELSE /\ \E i \in RecordsOf(q, Today) :
                   /\ completions' = RemoveAt(completions, i)
                   /\ CumXP(player') = CumXP(player) - completions[i].xpEarned
              /\ UNCHANGED <<quests, timerState, day>>]_vars

\* an undo of today's completion that left the quest's record of an earlier
\* day in the list and a quest running
C12_Witness ==
  /\ last.op = "uncomplete" /\ last.res = "ok"
  /\ RecordsOf(last.id, Today) = {}
  /\ \E i \in DOMAIN completions :
       completions[i].questId = last.id /\ completions[i].date # Today
  /\ timerState.activeQuestId # NULL
  /\ player.xp > 0

\* C13: ensureDailyRollover (from the periodic tick or after a reset-hour
\* change) run when the stored day differs from the logical today leaves
\* activeQuestId and startTime null and pausedSessions empty, sets day to
\* the logical today and leaves completions, player and quests unchanged.
C13_RolloverFrame ==
  [][((RolloverTick \/ \E i \in DOMAIN tasks : SetResetHourContinue(i))
        /\ day # Today)
       => /\ timerState'.activeQuestId = NULL
          /\ timerState'.startTime = NULL
          /\ DOMAIN timerState'.pausedSessions = {}
          /\ day' = Today
          /\ UNCHANGED <<quests, completions, player>>]_vars

\* the tick has rolled the log over to the day after a completion that
\* earned XP
C13_Witness ==
  /\ last.op = "rollover" /\ last.res = "ok"
  /\ day = Today /\ day = toLocalDMY(now)
  /\ timerState = NoTimer
  /\ \E i \in DOMAIN completions : completions[i].date # day
  /\ player.xp > 0

\* the time of day of the wall clock in ticks, and its calendar day
TimeOfDay == now % TicksPerDay
CalendarDay == now \div TicksPerDay

\* C14: the logical today (of todayStr and of getLogicalToday alike) is the
\* calendar day of the wall clock, one day earlier exactly when the time of
\* day is before dailyResetHour o'clock: with reset hour 4, 03:59 is the
\* previous day and 04:00 the current day; with reset hour 0 it is always
\* the calendar day.
C14_LogicalToday ==
  calc.phase = "today" =>
    /\ calc.today = IF TimeOfDay < resetHour * TicksPerHour
                    THEN CalendarDay - 1 ELSE CalendarDay
    /\ calc.noon \div TicksPerDay = calc.today
    /\ (resetHour = 4 /\ TimeOfDay = 3 * TicksPerHour + 59 * TicksPerMinute)
         => calc.today = CalendarDay - 1
    /\ (resetHour = 4 /\ TimeOfDay = 4 * TicksPerHour) => calc.today = CalendarDay
    /\ resetHour = 0 => calc.today = CalendarDay

\* 03:59 read under reset hour 4: the day before
C14_Witness ==
  /\ calc.phase = "today"
  /\ resetHour = 4
  /\ TimeOfDay = 3 * TicksPerHour + 59 * TicksPerMinute
  /\ calc.today = CalendarDay - 1

\* the instant the logical day d began under the current reset hour
DayStart(d) == d * TicksPerDay + resetHour * TicksPerHour

\* C15: no completion dated the current logical day counts time tracked
\* before that day began: its minutesSpent is at most the (rounded) time that
\* has passed since the day's reset boundary.
C15_NoCarryOver ==
  \A i \in DOMAIN completions :
    completions[i].date = Today
      => completions[i].minutesSpent
           <= MathRound(now - DayStart(Today), TicksPerMinute)

\* C16: the unload path leaves (and writes) a timer state with no active
\* quest, the running quest's elapsed time up to the unload added to its
\* pausedSessions bucket.
C16_UnloadAutoPauses ==
  [][Unload =>
       /\ timerState'.activeQuestId = NULL
       /\ timerState'.startTime = NULL
       /\ timerState.activeQuestId # NULL =>
            pausedOf(timerState', timerState.activeQuestId)
              = pausedOf(timerState, timerState.activeQuestId)
                  + (now - timerState.startTime)]_vars

\* C17: startup leaves no quest running; a timer the loaded log still held
\* active (on the same logical day) has its elapsed time up to the reload
\* added to the quest's pausedSessions bucket.
C17_LoadRecoversTimer ==
  [][Onload =>
       /\ timerState'.activeQuestId = NULL
       /\ timerState'.startTime = NULL
       /\ (timerState.activeQuestId # NULL /\ ~rolloverDue) =>
            pausedOf(timerState', timerState.activeQuestId)
              = pausedOf(timerState, timerState.activeQuestId)
                  + (now - timerState.startTime)]_vars

\* the schedule read was typed as the one keyword k
TypedKeyword(k) ==
  calc.phase = "scheduled" /\ calc.toks[1].kind = "keyword" /\ calc.toks[1].a = k

\* C18: a schedule that, trimmed and lower-cased, is empty, "daily", "all" or
\* "everyday" is due on all seven days of the week; "weekdays" is due exactly
\* on Monday to Friday (getDay 1..5), "weekends" exactly on Saturday and
\* Sunday (getDay 6 and 0).
C18_KeywordSchedules ==
  /\ (\E k \in {"empty", "daily", "all", "everyday"} : TypedKeyword(k)) => calc.due
  /\ TypedKeyword("weekdays") => (calc.due <=> calc.getDay \in 1..5)
  /\ TypedKeyword("weekends") => (calc.due <=> calc.getDay \in {0, 6})

\* "WEEKDAYS", typed in capitals, is due on a Friday
C18_Witness ==
  /\ TypedKeyword("weekdays")
  /\ calc.raw = toUpperCase(calc.toks[1].text)
  /\ calc.getDay = 5 /\ calc.due

\* the days met walking forward from day a to day b, round the week
CyclicRange(a, b) ==
  {DAY_KEYS[k + 1] : k \in {k \in 0..(DaysPerWeek - 1) :
     (k - DAY_INDEX(a) + DaysPerWeek) % DaysPerWeek
       <= (DAY_INDEX(b) - DAY_INDEX(a) + DaysPerWeek) % DaysPerWeek}}

\* the days a token stands for
MeantDays(t) ==
  IF t.kind = "day" THEN {t.a}
  ELSE IF t.kind = "range" THEN CyclicRange(t.a, t.b)
  ELSE {}

\* C19: the day set of a schedule of day, range and unrecognised tokens is
\* the union over its tokens of: the day itself, the days from a to b walking
\* forward round the week for a range a-b, nothing for an unrecognised token;
\* "fri-mon" is Fri, Sat, Sun, Mon and "mon-mon" is Mon alone.
C19_RangesAndUnion ==
  (calc.phase = "scheduled" /\ calc.toks[1].kind # "keyword") =>
    /\ calc.days = UNION {MeantDays(calc.toks[i]) : i \in DOMAIN calc.toks}
    /\ (Len(calc.toks) = 1 /\ calc.toks[1].kind = "range"
          /\ calc.toks[1].a = "fri" /\ calc.toks[1].b = "mon")
         => calc.days = {"fri", "sat", "sun", "mon"}
    /\ (Len(calc.toks) = 1 /\ calc.toks[1].kind = "range"
          /\ calc.toks[1].a = "mon" /\ calc.toks[1].b = "mon")
         => calc.days = {"mon"}

\* "xyz,fri-mon": the range wraps the week and the unknown token adds nothing
C19_Witness ==
  /\ calc.phase = "scheduled"
  /\ Len(calc.toks) = 2
  /\ calc.toks[1].kind = "unknown"
  /\ calc.toks[2].kind = "range" /\ calc.toks[2].a = "fri" /\ calc.toks[2].b = "mon"
  /\ calc.days = {"fri", "sat", "sun", "mon"}

\* C20: a schedule that is no keyword and whose tokens are all unrecognised
\* is due on every day of the week.
C20_EmptyDaySetIsDaily ==
  (calc.phase = "scheduled"
     /\ \A i \in DOMAIN calc.toks : calc.toks[i].kind = "unknown")
    => calc.due

\* C24: the steps of archiveQuest leave the completions as they are; an
\* archived quest is in none of getActiveQuests, getTodayQuests and
\* getOtherQuests; completeQuest on an archived quest leaves completions and
\* player as they are.
C24_ArchivedIsHiddenAndKept ==
  /\ [](\A q \in QuestIds : IsArchived(q) =>
          /\ \A i \in DOMAIN getActiveQuests : getActiveQuests[i].id # q
          /\ \A i \in DOMAIN getTodayQuests : getTodayQuests[i].id # q
          /\ \A i \in DOMAIN getOtherQuests : getOtherQuests[i].id # q)
  /\ [][/\ ((\E q \in QuestIds : ArchiveQuest(q))
              \/ (\E i \in DOMAIN tasks : ArchiveContinue(i)))
             => completions' = completions
        /\ \A q \in QuestIds : (CompleteQuest(q) /\ IsArchived(q))
             => UNCHANGED <<completions, player>>]_vars

\* completeQuest refused on an archived quest that keeps its record of today,
\* while the other quest is listed
C24_Witness ==
  /\ last.op = "complete" /\ last.res = "archived"
  /\ IsArchived(last.id)
  /\ RecordsOf(last.id, Today) # {}
  /\ Len(getActiveQuests) = 1
  /\ Len(getTodayQuests) + Len(getOtherQuests) = 1

\* C25 as stated: the step that archives a quest leaves it not active and
\* with no minutes in pausedSessions.
C25_ArchiveClearsTimer ==
  [][\A q \in QuestIds : (~IsArchived(q) /\ IsArchived(q)') =>
        /\ timerState'.activeQuestId # q
        /\ pausedOf(timerState', q) = 0]_vars

\* C25 amended: archiveQuest(id) pauses the quest when it is the running one
\* (the active slot is emptied and pausedSessions[id] takes all of its tracked
\* time); the step that sets archived and unarchiveQuest(id) leave the timer
\* state as it is, so the quest comes back with the time that was tracked.
C25_ArchivePausesAndKeeps ==
  [][\A q \in QuestIds :
       /\ (ArchiveQuest(q) /\ timerState.activeQuestId = q /\ ~IsArchived(q)) =>
            /\ timerState'.activeQuestId = NULL
            /\ timerState'.startTime = NULL
            /\ pausedOf(timerState', q) = getTotalMinutes(timerState, q)
       /\ (IsArchived(q) # IsArchived(q)') => timerState' = timerState]_vars

\* a quest archived while it was running, its time kept in pausedSessions
C25_Witness ==
  /\ last.op = "archive" /\ last.res = "pausing"
  /\ IsArchived(last.id)
  /\ timerState.activeQuestId = NULL
  /\ pausedOf(timerState, last.id) > 0

\* the quests that are not archived
ActiveIdx == {i \in DOMAIN quests : ~quests[i].archived}

\* C22: after reorderQuests(questIds, category), for any list questIds of
\* quests of the category, no two quests that are not archived have the same
\* order.
C22_ReorderNoDuplicates ==
  [][(\E c \in Categories : \E ids \in ReorderInputs(c) : ReorderQuests(ids, c)) =>
       \A i, j \in ActiveIdx' : quests'[i].order = quests'[j].order => i = j]_vars

\* one quest of two of a category dragged onto the place of the other
C22_Witness ==
  /\ last.op = "reorder"
  /\ Len(quests) = 2 /\ ActiveIdx = {1, 2}
  /\ quests[1].category = quests[2].category
  /\ quests[1].id = 2 /\ quests[1].order = 0
  /\ quests[2].id = 1 /\ quests[2].order = 1

\* C23: in every state the orders of the quests that are not archived are
\* exactly 0..N-1, N the number of such quests.
C23_OrdersDense ==
  /\ \A i, j \in ActiveIdx : quests[i].order = quests[j].order => i = j
  /\ {quests[i].order : i \in ActiveIdx} = 0..(Cardinality(ActiveIdx) - 1)

\* what deleteQuest(id) leaves once it has gone through
Purged(id) ==
  /\ \A j \in DOMAIN quests : quests[j].id # id
  /\ \A j \in DOMAIN completions : completions[j].questId # id
  /\ timerState.activeQuestId # id
  /\ id \notin DOMAIN timerState.pausedSessions

\* C26: the step of deleteQuest(id) that follows the confirmation (or the call
\* itself under skipConfirm) leaves no quest with that id, no completion with
\* questId = id of any date, id not the active quest and no pausedSessions
\* entry for id; the call that opens the dialog and a declined dialog leave
\* the log as it is.
C26_DeletePurges ==
  [][/\ \A i \in DOMAIN tasks :
          /\ DeleteContinue(i, TRUE) => Purged(tasks[i].id)'
          /\ DeleteContinue(i, FALSE) => UNCHANGED logVars
     /\ \A q \in QuestIds :
          /\ (DeleteQuest(q, TRUE) /\ findIndex(q) # 0) => Purged(q)'
          /\ DeleteQuest(q, FALSE) => UNCHANGED logVars]_vars

\* a quest completed on an earlier day and running again, deleted after the
\* confirmation: the record and the running time are gone
C26_Witness ==
  \E i \in DOMAIN tasks :
    /\ tasks[i].op = "delete" /\ tasks[i].pc = "save"
    /\ last = [op |-> "delete", id |-> tasks[i].id, res |-> "ok"]
    /\ done[tasks[i].id] # {} /\ Today \notin done[tasks[i].id]
    /\ tasks[i].prevTotal > 0
    /\ Purged(tasks[i].id)

\* C27: completeQuest on a quest object whose id is not in the quest list
\* changes no quest, completion, player or timer field.
C27_NotFoundChangesNothing ==
  [][\A i \in DOMAIN tasks :
       (CompleteStale(i) /\ findIndex(tasks[i].other.id) = 0) => UNCHANGED logVars]_vars

\* C30: when startQuest goes on after its await of pauseQuest, no quest's
\* tracked time (its bucket plus its running time) becomes less.
C30_OverlapKeepsElapsed ==
  [][\A i \in DOMAIN tasks : StartContinue(i) =>
       \A q \in QuestIds :
         getTotalMinutes(timerState', q) >= getTotalMinutes(timerState, q)]_vars

\* every part of the log is there in its full shape
WellFormed(log) ==
  /\ log.quests = "array" /\ log.completions = "array"
  /\ log.player = "full" /\ log.timerState = "full"

\* C28: after loadQuestLog, whatever the file holds, the log in memory has
\* its quests and completions arrays, its player with level and xp and its
\* timerState with its three fields.
C28_LoadedLogWellFormed == calc.phase = "loaded" => WellFormed(calc.log)

\* C29: a mutation whose commit has refreshed the view is in a snapshot that
\* was written before; every snapshot written is the whole log of the moment
\* it was taken (all mutations up to the latest in it); the commit of a
\* mutation whose save threw has not refreshed the view.
C29_CommitOrder ==
  calc.phase = "commit" =>
    /\ \A m \in calc.refreshed : \E content \in calc.saved : m \in content
    /\ \A content \in calc.saved : content = 1..Cardinality(content)
    /\ calc.disk \in calc.saved \cup {{}}
    /\ calc.refreshed \cap calc.failed = {}

\* three mutations committed: the save of the first threw, the other two
\* were written and shown, the file holding all three
C29_Witness ==
  /\ calc.phase = "commit"
  /\ calc.failed = {1}
  /\ calc.refreshed = {2, 3}
  /\ calc.disk = {1, 2, 3}
  /\ calc.view = calc.mem
  /\ calc.saves = <<>>

\* C31: once the stored day differs from the logical today, the tick leads to
\* a state where they are equal and the timer state is empty; a tick that
\* finds them equal leaves the log as it is and starts no save.
C31_TickRollsOver ==
  /\ rolloverDue ~> (~rolloverDue /\ timerState = NoTimer)
  /\ [][(RolloverTick /\ ~rolloverDue) => UNCHANGED <<logVars, tasks>>]_vars

\* the clock has passed midnight and the tick has rolled the day over, its
\* save under way
C31_Witness ==
  /\ last = [op |-> "rollover", id |-> NULL, res |-> "ok"]
  /\ now > StartNow
  /\ day = Today
  /\ timerState = NoTimer
  /\ \E i \in DOMAIN tasks : tasks[i].op = "rollover" /\ tasks[i].pc = "save"

\* C32: getActiveElapsedMinutes is now - startTime while a quest runs and the
\* clock has not gone back below startTime, 0 when idle, and never negative;
\* getTotalMinutes(q) and every pausedSessions value are never negative.
C32_ElapsedNeverNegative ==
  /\ (timerState.activeQuestId # NULL /\ now >= timerState.startTime)
       => getActiveElapsedMinutes(timerState) = now - timerState.startTime
  /\ timerState.activeQuestId = NULL => getActiveElapsedMinutes(timerState) = 0
  /\ getActiveElapsedMinutes(timerState) >= 0
  /\ \A q \in QuestIds : getTotalMinutes(timerState, q) >= 0
  /\ \A q \in DOMAIN timerState.pausedSessions : timerState.pausedSessions[q] >= 0

\* a quest running with the wall clock set back below its startTime, the
\* other quest with banked time
C32_Witness ==
  /\ timerState.activeQuestId # NULL
  /\ now < timerState.startTime
  /\ getActiveElapsedMinutes(timerState) = 0
  /\ \E q \in QuestIds : q # timerState.activeQuestId /\ pausedOf(timerState, q) > 0

\* C33: the step of resetAllData that follows the confirmation leaves the
\* fresh default record (no quests, no completions, level 1 and xp 0, no
\* active quest, no pausedSessions entry, day the logical today); the call
\* that opens the dialog and a declined dialog leave the log as it is.
C33_ResetGivesFreshLog ==
  [][/\ \A i \in DOMAIN tasks :
          /\ ResetContinue(i, TRUE) =>
               /\ quests' = <<>> /\ completions' = <<>>
               /\ player' = [level |-> 1, xp |-> 0]
               /\ timerState'.activeQuestId = NULL /\ timerState'.startTime = NULL
               /\ DOMAIN timerState'.pausedSessions = {}
               /\ day' = Today'
          /\ ResetContinue(i, FALSE) => UNCHANGED logVars
     /\ ResetAllData => UNCHANGED logVars]_vars

\* a log with XP earned, reset on the day after it was loaded
C33_Witness ==
  \E i \in DOMAIN tasks :
    /\ tasks[i].op = "reset" /\ tasks[i].pc = "save"
    /\ tasks[i].other.xp > 0
    /\ now > StartNow
    /\ quests = <<>> /\ completions = <<>>
    /\ player = [level |-> 1, xp |-> 0]
    /\ timerState = NoTimer
    /\ day = Today

\* C34: no call of startQuest, resumeQuest or pauseQuest makes the tracked
\* time (getTotalMinutes) of any quest less.
C34_TimerCallsKeepMinutes ==
  [][\A q \in QuestIds :
       (StartQuest(q) \/ ResumeQuest(q) \/ PauseQuest(q)) =>
         \A r \in QuestIds :
           getTotalMinutes(timerState', r) >= getTotalMinutes(timerState, r)]_vars

\* C35: the active quest, if any, is in the quest list, is not archived and
\* has no completion dated the logical today.
C35_ActiveQuestIsStartable ==
  timerState.activeQuestId # NULL =>
    /\ findIndex(timerState.activeQuestId) # 0
    /\ ~IsArchived(timerState.activeQuestId)
    /\ ~isCompletedToday(timerState.activeQuestId)

\* C36: the step of deleteQuest(id) that follows the confirmation removes the
\* quest with that id and no other quest.
C36_DeleteRemovesItsQuest ==
  [][\A i \in DOMAIN tasks : DeleteContinue(i, TRUE) =>
       {quests'[j].id : j \in DOMAIN quests'}
         = {quests[j].id : j \in DOMAIN quests} \ {tasks[i].id}]_vars

RECURSIVE SumEarned(_)
\* the xpEarned of all the records of a completions list
SumEarned(cs) == IF cs = <<>> THEN 0 ELSE Head(cs).xpEarned + SumEarned(Tail(cs))

\* C37: the player's cumulative XP is the sum of xpEarned over the completion
\* records, and no revert ends in the level-1 floor clamp.
C37_XPIsSumOfRecords ==
  /\ [](CumXP(player) = SumEarned(completions))
  /\ [][\A q \in QuestIds :
          (UncompleteQuest(q) /\ last'.res = "ok") =>
            \E i \in DOMAIN completions :
              /\ completions[i].questId = q
              /\ completions[i].date = todayStr(resetHour, now)
              /\ ~floorClampEngaged(player, completions[i].xpEarned)]_vars

\* the undo of a completion of quest 2, worth more than the whole of level 1,
\* that came down to level 1 and left another record standing
C37_Witness ==
  /\ last = [op |-> "uncomplete", id |-> 2, res |-> "ok"]
  /\ completions # <<>>
  /\ player.level = 1
  /\ CumXP(player) = SumEarned(completions)
  /\ \A i \in DOMAIN completions : completions[i].xpEarned > 0

\* C38: timerState.activeQuestId is null exactly when timerState.startTime is
\* null, in every state, those between the awaits of a handler included.
C38_SlotFieldsTogether ==
  (timerState.activeQuestId = NULL) <=> (timerState.startTime = NULL)

\* startQuest between its pause of the running quest and its own write: both
\* fields are null and the time of the paused quest is banked
C38_Witness ==
  \E i \in DOMAIN tasks :
    /\ tasks[i].op = "start" /\ tasks[i].pc = "pause"
    /\ timerState.activeQuestId = NULL /\ timerState.startTime = NULL
    /\ pausedOf(timerState, tasks[i].other) > 0

\* C39: after importData, whatever text is supplied, the log in memory is the
\* log of before or a record with its quests and completions arrays, its
\* player and its timerState.
C39_ImportedLogWellFormed ==
  calc.phase \in {"failed", "declined", "imported"} =>
    (calc.log = DefaultLog \/ WellFormed(calc.log))

\* C40: for every non-empty set S of week days,
\* parseSelectedDaysFromSchedule(selectedDaysToSchedule(S)) = S.
C40_PickerRoundTrip == calc.phase = "saved" => calc.days = calc.selectedDays

\* a set of five days that is no keyword, written sunday last and read back
C40_Witness ==
  /\ calc.phase = "saved"
  /\ calc.selectedDays = {"sun", "mon", "tue", "wed", "thu"}
  /\ calc.schedule = join(<<"mon", "tue", "wed", "thu", "sun">>)
  /\ calc.days = calc.selectedDays

====
